---- MODULE Spec2Model ----
(***************************************************************************)
(* DVF cleaning pipeline (pipelines/clean_dvf.py) and multi-level price    *)
(* aggregation (pipelines/aggregate.py).                                   *)
(*                                                                         *)
(* Tables (polars DataFrames) are sequences of records; a column name      *)
(* with spaces is written with underscores.  A Float64 value is an exact   *)
(* rational [n, d] with d > 0; the missing value (null) of a Float64       *)
(* column is NullNum, the missing value of a text column is NullStr, and   *)
(* the raw text of a numeric column is a sequence of one-character strings *)
(* (NullText when missing).                                                *)
(***************************************************************************)
EXTENDS Integers, Sequences, FiniteSets, Bags, TLC

VARIABLES
    pc,          \* position in the running script or function
    file,        \* the raw DVF file: its data lines
    columns,     \* the column names of the raw file, then of the table df
    df,          \* the table the running function holds
    args,        \* the arguments of the call, when a function is run on its own
    out,         \* what that call returned
    clean_file,  \* the clean transaction dataset on disk
    gpkg,        \* the administrative boundaries resource on disk
    results,     \* aggregate_all_levels' dictionary of summaries
    marts,       \* the level summary datasets on disk
    status       \* the completion status of the script, once it has exited

vars == <<pc, file, columns, df, args, out, clean_file, gpkg, results, marts, status>>

aggVars == <<clean_file, gpkg, results, marts>>

\* the value of status while the script runs
NotExited == -1

(***************************************************************************)
(* Bounds of the model                                                     *)
(***************************************************************************)
\* largest number of data lines of the raw DVF file
MaxRows == 3

(***************************************************************************)
(* Missing values and exact arithmetic                                     *)
(***************************************************************************)
NullStr == "<null>"
NullText == <<"<null>">>
NullNum == [n |-> 0, d |-> 0]

IsNull(x) == x.d = 0

Abs(i) == IF i < 0 THEN -i ELSE i

RECURSIVE GCD(_, _)
GCD(a, b) == IF b = 0 THEN a ELSE GCD(b, a % b)

\* the rational a/b (b # 0) in lowest terms with a positive denominator
Rat(a, b) ==
    LET g == GCD(Abs(a), Abs(b))
        s == IF b < 0 THEN -1 ELSE 1
    IN  [n |-> s * (a \div g), d |-> s * (b \div g)]

Num(i) == [n |-> i, d |-> 1]

RLe(x, y) == x.n * y.d <= y.n * x.d
RLt(x, y) == x.n * y.d < y.n * x.d
RAdd(x, y) == Rat(x.n * y.d + y.n * x.d, x.d * y.d)
RSub(x, y) == Rat(x.n * y.d - y.n * x.d, x.d * y.d)
RScale(k, m, x) == Rat(k * x.n, m * x.d)
RMin(x, y) == IF RLe(x, y) THEN x ELSE y

\* Float64 division of two non-missing values, the divisor not zero
RDiv(x, y) == Rat(x.n * y.d, x.d * y.n)

(***************************************************************************)
(* Config (clean_dvf.py)                                                   *)
(***************************************************************************)
RESIDENTIAL_TYPES == {"Maison", "Appartement"}
MIN_SURFACE_M2 == 8
MIN_PRICE_EUR == 10000
PRICE_M2_LOW_INITIAL == 300
PRICE_M2_HIGH_INITIAL == 30000
PRICE_M2_CEILING == 15000

(***************************************************************************)
(* parse_float_fr                                                          *)
(***************************************************************************)
Digits == {"0", "1", "2", "3", "4", "5", "6", "7", "8", "9"}

DigitVal(c) ==
    CASE c = "0" -> 0 [] c = "1" -> 1 [] c = "2" -> 2 [] c = "3" -> 3
      [] c = "4" -> 4 [] c = "5" -> 5 [] c = "6" -> 6 [] c = "7" -> 7
      [] c = "8" -> 8 [] c = "9" -> 9

IsDigit(c) == c \in Digits
NotWhitespace(c) == c # " "

RECURSIVE Pow10(_)
Pow10(k) == IF k = 0 THEN 1 ELSE 10 * Pow10(k - 1)

RECURSIVE DigitsValue(_)
DigitsValue(ds) ==
    IF ds = <<>> THEN 0
    ELSE 10 * DigitsValue(SubSeq(ds, 1, Len(ds) - 1)) + DigitVal(ds[Len(ds)])

\* mutant: whitespace is left in the text
StrReplaceAllWhitespace_None(t) == t

\* .str.replace_all(r"\s+", "")
StrReplaceAllWhitespace(t) == SelectSeq(t, NotWhitespace)

\* .str.replace(",", "."): only the first occurrence is replaced
StrReplaceFirstComma(t) ==
    LET I == {i \in 1..Len(t) : t[i] = ","}
    IN  IF I = {} THEN t
        ELSE [t EXCEPT ![CHOOSE i \in I : \A j \in I : i <= j] = "."]

\* .cast(pl.Float64, strict=False) of a text: an optional minus sign, digits
\* and at most one period, with at least one digit; any other text is null
CastFloat64(t) ==
    LET neg == Len(t) > 0 /\ t[1] = "-"
        body == IF neg THEN Tail(t) ELSE t
        dots == {i \in 1..Len(body) : body[i] = "."}
        ds == SelectSeq(body, IsDigit)
        ok == /\ Len(ds) > 0
              /\ Cardinality(dots) <= 1
              /\ \A i \in 1..Len(body) : IsDigit(body[i]) \/ body[i] = "."
        scale == IF dots = {} THEN 0
                 ELSE Len(body) - (CHOOSE i \in dots : TRUE)
        mant == DigitsValue(ds)
    IN  IF ok THEN Rat(IF neg THEN -mant ELSE mant, Pow10(scale)) ELSE NullNum

parse_float_fr(t) ==
    IF t = NullText THEN NullNum
    ELSE CastFloat64(StrReplaceFirstComma(StrReplaceAllWhitespace(t)))

(***************************************************************************)
(* load_dvf: the parsed numeric columns are added to the text columns      *)
(***************************************************************************)
LoadRow(r) ==
    r @@ [price_eur |-> parse_float_fr(r.Valeur_fonciere),
          surface_bati |-> parse_float_fr(r.Surface_reelle_bati),
          surface_carrez |-> parse_float_fr(r.Surface_Carrez_du_1er_lot)]

load_dvf(f) == [i \in 1..Len(f) |-> LoadRow(f[i])]

(***************************************************************************)
(* add_mutation_id                                                         *)
(***************************************************************************)
RECURSIVE TextToStr(_)
TextToStr(t) == IF t = <<>> THEN "" ELSE Head(t) \o TextToStr(Tail(t))

\* pl.col(c).fill_null("")
FillNullStr(x) == IF x = NullStr THEN "" ELSE x
FillNullText(t) == IF t = NullText THEN "" ELSE TextToStr(t)

\* mutant: concat_str without fill_null, a missing field makes the key missing
MutationId_NullPropagates(r) ==
    IF \/ NullStr \in {r.Identifiant_de_document, r.Date_mutation,
                       r.Code_departement, r.Code_commune, r.Section, r.No_plan}
       \/ r.Valeur_fonciere = NullText
    THEN NullStr
    ELSE r.Identifiant_de_document \o "|" \o r.Date_mutation \o "|" \o
         TextToStr(r.Valeur_fonciere) \o "|" \o r.Code_departement \o "|" \o
         r.Code_commune \o "|" \o r.Section \o "|" \o r.No_plan

MutationId(r) ==
    FillNullStr(r.Identifiant_de_document) \o "|" \o
    FillNullStr(r.Date_mutation) \o "|" \o
    FillNullText(r.Valeur_fonciere) \o "|" \o
    FillNullStr(r.Code_departement) \o "|" \o
    FillNullStr(r.Code_commune) \o "|" \o
    FillNullStr(r.Section) \o "|" \o
    FillNullStr(r.No_plan)

add_mutation_id(t) ==
    [i \in 1..Len(t) |-> t[i] @@ [mutation_id |-> MutationId(t[i])]]

(***************************************************************************)
(* filter_residential_sales                                                *)
(***************************************************************************)
\* mutant: the built surface is taken whenever it is present, positive or not
SurfaceFinal_BatiIfPresent(r) ==
    IF ~IsNull(r.surface_bati) THEN r.surface_bati ELSE r.surface_carrez

\* pl.when(bati.is_not_null() & (bati > 0)).then(bati).otherwise(carrez)
SurfaceFinal(r) ==
    IF ~IsNull(r.surface_bati) /\ RLt(Num(0), r.surface_bati)
    THEN r.surface_bati
    ELSE r.surface_carrez

IsVente(r) == r.Nature_mutation = "Vente"
IsResidential(r) == r.Type_local \in RESIDENTIAL_TYPES
\* a comparison with a missing value is missing, and filter drops the row
SurfaceAboveMin(r) ==
    ~IsNull(r.surface_final) /\ RLt(Num(MIN_SURFACE_M2), r.surface_final)

\* mutant: the minimum price is let through (>= instead of >)
PriceAboveMin_Inclusive(r) ==
    ~IsNull(r.price_eur) /\ RLe(Num(MIN_PRICE_EUR), r.price_eur)

PriceAboveMin(r) ==
    ~IsNull(r.price_eur) /\ RLt(Num(MIN_PRICE_EUR), r.price_eur)

WithSurfaceFinal(t) ==
    [i \in 1..Len(t) |-> t[i] @@ [surface_final |-> SurfaceFinal(t[i])]]

filter_residential_sales(t) ==
    SelectSeq(
        SelectSeq(
            WithSurfaceFinal(SelectSeq(SelectSeq(t, IsVente), IsResidential)),
            SurfaceAboveMin),
        PriceAboveMin)

(***************************************************************************)
(* select_main_local                                                       *)
(***************************************************************************)
Range(t) == {t[i] : i \in 1..Len(t)}

Bijections(n) ==
    {p \in [1..n -> 1..n] : \A i, j \in 1..n : p[i] = p[j] => i = j}

\* every arrangement of the rows of t
Arrangements(t) ==
    {[i \in 1..Len(t) |-> t[p[i]]] : p \in Bijections(Len(t))}

\* mutant: the sort is ascending
SortsBefore_Ascending(a, b) ==
    \/ IsNull(a.surface_final)
    \/ ~IsNull(b.surface_final) /\ RLe(a.surface_final, b.surface_final)

\* the order df.sort("surface_final", descending=True) puts a before b in:
\* missing values first (nulls_last=False), then the larger surface
SortsBefore(a, b) ==
    \/ IsNull(a.surface_final)
    \/ ~IsNull(b.surface_final) /\ RLe(b.surface_final, a.surface_final)

\* df.sort(..., maintain_order=False): rows with equal keys come in any order
SortDescending(t) ==
    {s \in Arrangements(t) :
        \A i, j \in 1..Len(s) : i < j => SortsBefore(s[i], s[j])}

\* mutant: keep="none", a sale with several rows loses them all
KeepFirst_KeepNone(s) ==
    LET IsAlone(r) ==
            Cardinality({i \in 1..Len(s) : s[i].mutation_id = r.mutation_id}) = 1
    IN  SelectSeq(s, IsAlone)

\* mutant: no deduplication, every row is kept
KeepFirst_KeepAll(s) == s

\* mutant: the top row of the sorted table is lost
KeepFirst_SkipTop(s) == IF s = <<>> THEN s ELSE Tail(s)

\* the rows unique(subset=["mutation_id"], keep="first") keeps of s
KeepFirst(s) ==
    LET first == {i \in 1..Len(s) :
                    \A j \in 1..(i - 1) : s[j].mutation_id # s[i].mutation_id}
        F[i \in 0..Len(s)] ==
            IF i = 0 THEN <<>>
            ELSE IF i \in first THEN Append(F[i - 1], s[i]) ELSE F[i - 1]
    IN  F[Len(s)]

\* unique(..., maintain_order=False): the kept rows come in any order
Unique(s) == Arrangements(KeepFirst(s))

\* the tables select_main_local(t) may return
select_main_local(t) == UNION {Unique(s) : s \in SortDescending(t)}

(***************************************************************************)
(* compute_price_m2                                                        *)
(***************************************************************************)
PriceM2(r) ==
    IF IsNull(r.price_eur) \/ IsNull(r.surface_final) \/ r.surface_final.n = 0
    THEN NullNum
    ELSE RDiv(r.price_eur, r.surface_final)

WithPriceM2(t) == [i \in 1..Len(t) |-> t[i] @@ [price_m2 |-> PriceM2(t[i])]]

\* pl.col("price_m2").is_between(low_initial, high_initial), both ends closed
InInitialBounds(r) ==
    /\ ~IsNull(r.price_m2)
    /\ RLe(Num(PRICE_M2_LOW_INITIAL), r.price_m2)
    /\ RLe(r.price_m2, Num(PRICE_M2_HIGH_INITIAL))

\* Step 1: df_with_price
Stage1(t) == SelectSeq(WithPriceM2(t), InInitialBounds)

\* a Float64 column is the bag of its values (their order never matters
\* below): Sum(col) is its length
RECURSIVE SumOver(_, _)
SumOver(S, col) ==
    IF S = {} THEN 0
    ELSE LET x == CHOOSE y \in S : TRUE
         IN  col[x] + SumOver(S \ {x}, col)

Sum(col) == SumOver(DOMAIN col, col)

\* column price_m2 of table t
PriceColumn(t) ==
    [v \in {t[i].price_m2 : i \in 1..Len(t)} |->
        Cardinality({i \in 1..Len(t) : t[i].price_m2 = v})]

\* the value of rank k (counted from 0) of a column in ascending order
Ranked(col, k) ==
    CHOOSE x \in DOMAIN col :
        /\ SumOver({v \in DOMAIN col : RLt(v, x)}, col) <= k
        /\ k < SumOver({v \in DOMAIN col : RLe(v, x)}, col)

\* .quantile(q), q = pct/100, with the default interpolation "nearest": the
\* value of rank round((n - 1) * q); missing when the column is empty
Quantile(col, pct) ==
    IF Sum(col) = 0 THEN NullNum
    ELSE Ranked(col, (2 * (Sum(col) - 1) * pct + 100) \div 200)

\* p90 - p10 of two missing values raises TypeError
Step2Raises(t) ==
    IsNull(Quantile(PriceColumn(t), 10)) \/ IsNull(Quantile(PriceColumn(t), 90))

\* mutant: the absolute ceiling is not applied
UpperBound_NoCeiling(t) ==
    LET p10 == Quantile(PriceColumn(t), 10)
        p90 == Quantile(PriceColumn(t), 90)
    IN  RAdd(p90, RScale(3, 2, RSub(p90, p10)))

\* upper_bound = min(p90 + 1.5 * (p90 - p10), 15000.0)
UpperBound(t) ==
    LET p10 == Quantile(PriceColumn(t), 10)
        p90 == Quantile(PriceColumn(t), 90)
        iqr == RSub(p90, p10)
    IN  RMin(RAdd(p90, RScale(3, 2, iqr)), Num(PRICE_M2_CEILING))

\* mutant: the percentiles are taken over the whole table, not over the rows
\* that passed the initial bounds
compute_price_m2_WholeTable(t) ==
    LET ub == UpperBound(WithPriceM2(t))
        AtMostUpper(r) == RLe(r.price_m2, ub)
    IN  SelectSeq(Stage1(t), AtMostUpper)

\* Step 3: df_with_price.filter(pl.col("price_m2") <= upper_bound)
compute_price_m2(t) ==
    LET s1 == Stage1(t)
        ub == UpperBound(s1)
        AtMostUpper(r) == RLe(r.price_m2, ub)
    IN  SelectSeq(s1, AtMostUpper)

(***************************************************************************)
(* The raw DVF file: the data lines the model draws its input from.  Every *)
(* line is a sale of department 75, commune 101, parcel AB 12; the lines   *)
(* differ in the document, the declared price, the nature, the type and    *)
(* the two surfaces.                                                       *)
(***************************************************************************)
RawLine(doc, valeur, nature, type, bati, carrez) ==
    [Identifiant_de_document |-> doc,
     Date_mutation |-> "03/01/2025",
     Nature_mutation |-> nature,
     Valeur_fonciere |-> valeur,
     Code_postal |-> "75001",
     Code_commune |-> "101",
     Code_departement |-> "75",
     Section |-> "AB",
     No_plan |-> "12",
     Type_local |-> type,
     Surface_reelle_bati |-> bati,
     Surface_Carrez_du_1er_lot |-> carrez]

RawLines ==
    { \* 6000 EUR/m2, the largest dwelling of sale D1
      RawLine("D1", <<"1","2","0","0","0","0">>, "Vente", "Appartement",
              <<"2","0">>, NullText),
      \* same sale, smaller dwelling: 12000 EUR/m2
      RawLine("D1", <<"1","2","0","0","0","0">>, "Vente", "Maison",
              <<"1","0">>, NullText),
      \* same sale, an outbuilding larger than both dwellings
      RawLine("D1", <<"1","2","0","0","0","0">>, "Vente", "Dependance",
              <<"4","0">>, NullText),
      \* same sale, built surface 0: Carrez surface 20, a tie with the first
      RawLine("D1", <<"1","2","0","0","0","0">>, "Vente", "Maison",
              <<"0">>, <<"2","0">>),
      \* declared price 5000, below the minimum
      RawLine("D2", <<"5","0","0","0">>, "Vente", "Maison",
              <<"1","0">>, NullText),
      \* declared price exactly the minimum
      RawLine("D2", <<"1","0","0","0","0">>, "Vente", "Maison",
              <<"1","0">>, NullText),
      \* 20000 EUR/m2: inside the initial bounds, above the ceiling
      RawLine("D2", <<"2","0","0","0","0","0">>, "Vente", "Appartement",
              <<"1","0">>, NullText),
      \* 40000 EUR/m2: above the initial bounds
      RawLine("D3", <<"4","0","0","0","0","0">>, "Vente", "Maison",
              <<"1","0">>, NullText),
      \* built surface exactly the minimum, Carrez surface above it
      RawLine("D3", <<"1","2","0","0","0","0">>, "Vente", "Maison",
              <<"8">>, <<"2","0">>),
      \* not a sale
      RawLine("D3", <<"1","2","0","0","0","0">>, "Echange", "Maison",
              <<"2","0">>, NullText),
      \* "12 000,00" over 50 m2: 240 EUR/m2, below the initial bounds
      RawLine("D4", <<"1","2"," ","0","0","0",",","0","0">>, "Vente", "Maison",
              <<"5","0">>, NullText),
      \* no surface at all, and 9600 EUR/m2 from a Carrez surface of 12,5
      RawLine("D4", <<"1","2","0","0","0","0">>, "Vente", "Appartement",
              NullText, NullText),
      RawLine("D5", <<"1","2","0","0","0","0">>, "Vente", "Appartement",
              NullText, <<"1","2",",","5">>) }

SeqsUpTo(S, n) == UNION {[1..k -> S] : k \in 0..n}

\* the header of a complete DVF export, as far as the pipeline reads it
RawColumns ==
    DOMAIN RawLine("D1", NullText, "Vente", "Maison", NullText, NullText)
        \cup {"Surface_terrain"}

\* a path that holds no file has no header
Exists(cols) == cols # {}

\* the columns load_dvf parses
LOAD_COLS ==
    <<"Valeur_fonciere", "Surface_reelle_bati", "Surface_terrain",
      "Surface_Carrez_du_1er_lot">>

\* cols of add_mutation_id
MUTATION_ID_COLS ==
    <<"Identifiant_de_document", "Date_mutation", "Valeur_fonciere",
      "Code_departement", "Code_commune", "Section", "No_plan">>

\* required of filter_residential_sales
FILTER_REQUIRED ==
    <<"Nature_mutation", "Type_local", "price_eur", "surface_bati",
      "surface_carrez">>

\* mutant: only the first missing column is reported
MissingColumns_FirstOnly(required, cols) ==
    LET IsMissing(c) == c \notin cols
        all == SelectSeq(required, IsMissing)
    IN  IF all = <<>> THEN <<>> ELSE <<Head(all)>>

\* [c for c in required if c not in df.columns]
MissingColumns(required, cols) ==
    LET IsMissing(c) == c \notin cols
    IN  SelectSeq(required, IsMissing)

Unset == <<>>

\* an exception: its class, its message (a text and the list of names in
\* it) and the function it was raised in
Raised(error, text, names, raised_in) ==
    [error |-> error, message |-> <<text, names>>, raised_in |-> raised_in]

(***************************************************************************)
(* build_clean_transactions, one action per stage of the pipe              *)
(***************************************************************************)
Init ==
    /\ pc = "start"
    /\ file \in SeqsUpTo(RawLines, MaxRows)
    /\ columns = RawColumns
    /\ status = NotExited
    /\ df = Unset
    /\ args = Unset
    /\ out = Unset
    /\ clean_file = Unset
    /\ gpkg = Unset
    /\ results = Unset
    /\ marts = Unset

LoadDvf ==
    /\ pc = "start"
    /\ Exists(columns)
    /\ MissingColumns(LOAD_COLS, columns) = <<>>
    /\ df' = load_dvf(file)
    /\ columns' = columns \cup
                    {"price_eur", "surface_bati", "surface_terrain", "surface_carrez"}
    /\ pc' = "loaded"
    /\ UNCHANGED <<file, args, out, aggVars, status>>

AddMutationId ==
    /\ pc = "loaded"
    /\ MissingColumns(MUTATION_ID_COLS, columns) = <<>>
    /\ df' = add_mutation_id(df)
    /\ columns' = columns \cup {"mutation_id"}
    /\ pc' = "keyed"
    /\ UNCHANGED <<file, args, out, aggVars, status>>

FilterResidentialSales ==
    /\ pc = "keyed"
    /\ MissingColumns(FILTER_REQUIRED, columns) = <<>>
    /\ df' = filter_residential_sales(df)
    /\ columns' = columns \cup {"surface_final"}
    /\ pc' = "filtered"
    /\ UNCHANGED <<file, args, out, aggVars, status>>

SelectMainLocal ==
    /\ pc = "filtered"
    /\ \E t \in select_main_local(df) : df' = t
    /\ pc' = "deduped"
    /\ UNCHANGED <<file, columns, args, out, aggVars, status>>

\* with no row left after Step 1 both percentiles are missing, Step 2 raises
\* and no table is returned
ComputePriceM2 ==
    /\ pc = "deduped"
    /\ IF Step2Raises(Stage1(df))
       THEN /\ pc' = "raised"
            /\ out' = Raised("TypeError",
                             "unsupported operand type(s) for -: 'NoneType' and 'NoneType'",
                             <<>>, "compute_price_m2")
            /\ df' = Unset
            /\ columns' = columns
       ELSE /\ pc' = "clean"
            /\ df' = compute_price_m2(df)
            /\ columns' = columns \cup {"price_m2"}
            /\ out' = out
    /\ UNCHANGED <<file, args, aggVars, status>>

Next ==
    \/ LoadDvf
    \/ AddMutationId
    \/ FilterResidentialSales
    \/ SelectMainLocal
    \/ ComputePriceM2

Spec == Init /\ [][Next]_vars

(***************************************************************************)
(* compute_price_m2 on its own: the deduplicated table it is given holds   *)
(* MaxCopies or fewer sales of each of six price levels, each sale under   *)
(* a key of its own.                                                       *)
(***************************************************************************)
MaxCopies == 3

Sale(id, price, surface) ==
    [mutation_id |-> id, price_eur |-> Num(price), surface_final |-> Num(surface)]

\* c sales of price/surface, keys id1..idc
Copies(id, price, surface, c) ==
    [i \in 1..c |-> Sale(id \o ToString(i), price, surface)]

PriceInputs ==
    {Copies("a", 12000, 50, c[1]) \o      \*   240 EUR/m2
     Copies("b", 20000, 20, c[2]) \o      \*  1000 EUR/m2
     Copies("c", 40000, 20, c[3]) \o      \*  2000 EUR/m2
     Copies("d", 140000, 10, c[4]) \o     \* 14000 EUR/m2
     Copies("e", 200000, 10, c[5]) \o     \* 20000 EUR/m2
     Copies("f", 400000, 10, c[6]) :      \* 40000 EUR/m2
        c \in [1..6 -> 0..MaxCopies]}

InitPrice ==
    /\ pc = "deduped"
    /\ df \in PriceInputs
    /\ args = df
    /\ columns = {"mutation_id", "price_eur", "surface_final"}
    /\ status = NotExited
    /\ file = Unset
    /\ out = Unset
    /\ clean_file = Unset
    /\ gpkg = Unset
    /\ results = Unset
    /\ marts = Unset

NextPrice == ComputePriceM2

SpecPrice == InitPrice /\ [][NextPrice]_vars

(***************************************************************************)
(* parse_float_fr on its own: the value it is given is missing or a text   *)
(* of MaxTextLen or fewer characters, or one of two longer texts.          *)
(***************************************************************************)
MaxTextLen == 4

TextAlphabet == {"0", "1", " ", ",", ".", "-", "C"}

ParseInputs ==
    SeqsUpTo(TextAlphabet, MaxTextLen)
        \cup {NullText, <<"1"," ","2","3","4",",","5","6">>, <<"1","2","C">>}

InitParse ==
    /\ pc = "parse_float_fr"
    /\ args \in ParseInputs
    /\ out = Unset
    /\ df = Unset
    /\ file = Unset
    /\ columns = Unset
    /\ status = NotExited
    /\ clean_file = Unset
    /\ gpkg = Unset
    /\ results = Unset
    /\ marts = Unset

ParseFloatFr ==
    /\ pc = "parse_float_fr"
    /\ out' = parse_float_fr(args)
    /\ pc' = "parsed"
    /\ UNCHANGED <<file, columns, df, args, aggVars, status>>

NextParse == ParseFloatFr

SpecParse == InitParse /\ [][NextParse]_vars

(***************************************************************************)
(* A stage that finds a required column missing raises KeyError: no table  *)
(* is produced and the message names the missing columns.                  *)
(***************************************************************************)
\* row r without the columns that are not in cols
Cut(r, cols) == [c \in DOMAIN r \cap cols |-> r[c]]

AddMutationIdRaises ==
    /\ pc = "loaded"
    /\ MissingColumns(MUTATION_ID_COLS, columns) # <<>>
    /\ out' = Raised("KeyError", "Missing expected DVF columns for mutation_id: ",
                     MissingColumns(MUTATION_ID_COLS, columns), "add_mutation_id")
    /\ df' = Unset
    /\ pc' = "raised"
    /\ UNCHANGED <<file, columns, args, aggVars, status>>

FilterResidentialSalesRaises ==
    /\ pc = "keyed"
    /\ MissingColumns(FILTER_REQUIRED, columns) # <<>>
    /\ out' = Raised("KeyError",
                     "Missing expected DVF columns for residential filter: ",
                     MissingColumns(FILTER_REQUIRED, columns),
                     "filter_residential_sales")
    /\ df' = Unset
    /\ pc' = "raised"
    /\ UNCHANGED <<file, columns, args, aggVars, status>>

(***************************************************************************)
(* add_mutation_id on its own: the table it is given holds MaxKeyRows or   *)
(* fewer rows, with missing values in the key fields, and may lack key     *)
(* columns.                                                                *)
(***************************************************************************)
MaxKeyRows == 2

KeyRow(doc, date, valeur, dept, commune, section, plan, type) ==
    [Identifiant_de_document |-> doc, Date_mutation |-> date,
     Valeur_fonciere |-> valeur, Code_departement |-> dept,
     Code_commune |-> commune, Section |-> section, No_plan |-> plan,
     Type_local |-> type]

KeyRows ==
    LET v == <<"1","2","0","0","0","0">>
    IN  {KeyRow("D1", "03/01/2025", v, "75", "101", "AB", "12", "Maison"),
         \* the same sale, another dwelling
         KeyRow("D1", "03/01/2025", v, "75", "101", "AB", "12", "Dependance"),
         \* one field missing
         KeyRow(NullStr, "03/01/2025", v, "75", "101", "AB", "12", "Maison"),
         KeyRow("D1", NullStr, v, "75", "101", "AB", "12", "Maison"),
         KeyRow("D1", "03/01/2025", NullText, "75", "101", "AB", "12", "Maison"),
         KeyRow("D1", "03/01/2025", v, NullStr, "101", "AB", "12", "Maison"),
         KeyRow("D1", "03/01/2025", v, "75", NullStr, "AB", "12", "Maison"),
         KeyRow("D1", "03/01/2025", v, "75", "101", NullStr, "12", "Maison"),
         KeyRow("D1", "03/01/2025", v, "75", "101", "AB", NullStr, "Maison"),
         \* every field missing
         KeyRow(NullStr, NullStr, NullText, NullStr, NullStr, NullStr, NullStr,
                "Maison"),
         KeyRow(NullStr, NullStr, NullText, NullStr, NullStr, NullStr, NullStr,
                "Dependance"),
         \* the declared price written "12 000,00"
         KeyRow("D1", "03/01/2025", <<"1","2"," ","0","0","0",",","0","0">>,
                "75", "101", "AB", "12", "Maison")}

\* the columns of a loaded table, less two or fewer, or all, of the key columns
KeyColumns ==
    {(Range(MUTATION_ID_COLS) \cup {"Type_local"}) \ S :
        S \in {T \in SUBSET Range(MUTATION_ID_COLS) :
                  Cardinality(T) <= 2 \/ T = Range(MUTATION_ID_COLS)}}

InitKey ==
    /\ pc = "loaded"
    /\ columns \in KeyColumns
    /\ df \in SeqsUpTo({Cut(r, columns) : r \in KeyRows}, MaxKeyRows)
    /\ args = df
    /\ out = Unset
    /\ file = Unset
    /\ status = NotExited
    /\ clean_file = Unset
    /\ gpkg = Unset
    /\ results = Unset
    /\ marts = Unset

NextKey ==
    \/ AddMutationId
    \/ AddMutationIdRaises

SpecKey == InitKey /\ [][NextKey]_vars

(***************************************************************************)
(* filter_residential_sales on its own: the table it is given holds        *)
(* MaxFilterRows or fewer rows and may lack any of the required columns.   *)
(***************************************************************************)
MaxFilterRows == 2

FilterRow(nature, type, price, bati, carrez) ==
    [Nature_mutation |-> nature, Type_local |-> type, price_eur |-> price,
     surface_bati |-> bati, surface_carrez |-> carrez]

\* the pairs (surface_bati, surface_carrez) of the rows below
SurfacePairs ==
    {<<Num(20), NullNum>>, <<NullNum, Num(20)>>, <<Num(0), Num(20)>>,
     <<Num(-5), Num(20)>>, <<Num(5), Num(20)>>, <<Num(8), Num(20)>>,
     <<NullNum, NullNum>>, <<NullNum, Num(8)>>, <<Num(20), Num(5)>>,
     <<Num(0), NullNum>>}

FilterRows ==
    {FilterRow("Vente", "Maison", Num(120000), p[1], p[2]) : p \in SurfacePairs}
    \cup
    {FilterRow("Vente", "Appartement", Num(120000), Num(20), NullNum),
     FilterRow("Vente", "Appartement", Num(120000), Num(8), Num(20)),
     FilterRow("Vente", "Dependance", Num(120000), Num(20), NullNum),
     FilterRow("Echange", "Appartement", Num(120000), Num(20), NullNum),
     FilterRow(NullStr, "Maison", Num(120000), Num(20), NullNum),
     FilterRow("Vente", NullStr, Num(120000), Num(20), NullNum),
     FilterRow("Vente", "Maison", Num(10000), Num(20), NullNum),
     FilterRow("Vente", "Maison", NullNum, Num(20), NullNum)}

\* the columns of a keyed table, less any of the columns the filter requires
FilterColumns ==
    {(Range(FILTER_REQUIRED) \cup {"mutation_id"}) \ S :
        S \in SUBSET Range(FILTER_REQUIRED)}

InitFilter ==
    /\ pc = "keyed"
    /\ columns \in FilterColumns
    /\ df \in SeqsUpTo({Cut(r, columns) : r \in FilterRows}, MaxFilterRows)
    /\ args = df
    /\ out = Unset
    /\ file = Unset
    /\ status = NotExited
    /\ clean_file = Unset
    /\ gpkg = Unset
    /\ results = Unset
    /\ marts = Unset

NextFilter ==
    \/ FilterResidentialSales
    \/ FilterResidentialSalesRaises

SpecFilter == InitFilter /\ [][NextFilter]_vars

(***************************************************************************)
(* The two stages that check their columns, each on every table above;     *)
(* a table add_mutation_id has keyed goes on to filter_residential_sales.  *)
(***************************************************************************)
InitStages == InitKey \/ InitFilter

NextStages == NextKey \/ NextFilter

SpecStages == InitStages /\ [][NextStages]_vars

(***************************************************************************)
(* Properties of the cleaning pipeline                                     *)
(***************************************************************************)
\* the table build_clean_transactions hands to select_main_local
FilterOutput == filter_residential_sales(add_mutation_id(load_dvf(file)))

Keys(t) == {t[i].mutation_id : i \in 1..Len(t)}

\* C1: every row of the table build_clean_transactions returns has
\* price_m2 = price_eur / surface_final and 300 <= price_m2 <= 15000.
C1_PriceWithinBounds ==
    pc = "clean" =>
        \A i \in 1..Len(df) :
            /\ ~IsNull(df[i].price_m2)
            /\ df[i].price_m2.n * df[i].surface_final.n * df[i].price_eur.d
                 = df[i].price_eur.n * df[i].surface_final.d * df[i].price_m2.d
            /\ 300 * df[i].price_m2.d <= df[i].price_m2.n
            /\ df[i].price_m2.n <= 15000 * df[i].price_m2.d

\* a clean table is returned although the deduplicated table held a sale
\* above 15000 EUR/m2 and one below 300 EUR/m2 next to the sales kept
C1_Witness ==
    /\ pc = "clean"
    /\ Len(df) >= 1
    /\ \E r \in Range(FilterOutput) :
          r.price_eur.n * r.surface_final.d
            > 15000 * r.surface_final.n * r.price_eur.d
    /\ \E r \in Range(FilterOutput) :
          r.price_eur.n * r.surface_final.d
            < 300 * r.surface_final.n * r.price_eur.d

\* C2: the output of select_main_local holds exactly one row for each
\* mutation_id of its input, and every output row is an input row, unmodified.
C2_OneRowPerKey ==
    pc = "deduped" =>
        /\ Keys(df) = Keys(FilterOutput)
        /\ \A i, j \in 1..Len(df) :
              df[i].mutation_id = df[j].mutation_id => i = j
        /\ Range(df) \subseteq Range(FilterOutput)

\* two sales are kept and at least one row of a sale with several rows is dropped
C2_Witness ==
    /\ pc = "deduped"
    /\ Len(df) = 2
    /\ Len(FilterOutput) > Len(df)

C4_DedupIdempotent ==
    pc = "deduped" =>
        \A t \in select_main_local(df) :
            Range(t) = Range(df) /\ Len(t) = Len(df)

\* the first application dropped a row and left two sales
C4_Witness ==
    /\ pc = "deduped"
    /\ Len(df) >= 2
    /\ Len(FilterOutput) > Len(df)
    /\ select_main_local(df) # {}

\* C5: the row kept for a mutation_id has a surface_final at least as large
\* as that of every input row with the same mutation_id.
C5_LargestSurfaceKept ==
    pc = "deduped" =>
        \A i \in 1..Len(df) : \A r \in Range(FilterOutput) :
            r.mutation_id = df[i].mutation_id =>
                r.surface_final.n * df[i].surface_final.d
                  <= df[i].surface_final.n * r.surface_final.d

\* a kept row has beaten a strictly smaller row of the same sale
C5_Witness ==
    /\ pc = "deduped"
    /\ \E i \in 1..Len(df) : \E r \in Range(FilterOutput) :
          /\ r.mutation_id = df[i].mutation_id
          /\ r.surface_final.n * df[i].surface_final.d
               < df[i].surface_final.n * r.surface_final.d

\* C6: every row of the clean table is a sale ('Vente') of a Maison or an
\* Appartement with surface_final present and > 8 and price_eur present
\* and > 10000.
C6_OnlyQualifyingRows ==
    pc = "clean" =>
        \A i \in 1..Len(df) :
            /\ df[i].Nature_mutation = "Vente"
            /\ df[i].Type_local \in {"Maison", "Appartement"}
            /\ df[i].surface_final.d > 0
            /\ df[i].surface_final.n > 8 * df[i].surface_final.d
            /\ df[i].price_eur.d > 0
            /\ df[i].price_eur.n > 10000 * df[i].price_eur.d

\* the raw file held a price of exactly 10000 and a larger row of another
\* type for a sale that is in the clean table
C6_Witness ==
    /\ pc = "clean"
    /\ \E i \in 1..Len(file) : parse_float_fr(file[i].Valeur_fonciere) = Num(10000)
    /\ \E i \in 1..Len(df) : \E j \in 1..Len(file) :
          /\ MutationId(file[j]) = df[i].mutation_id
          /\ file[j].Type_local = "Dependance"
          /\ RLt(df[i].surface_final, parse_float_fr(file[j].Surface_reelle_bati))

(***************************************************************************)
(* Properties of parse_float_fr (SpecParse: args is the value given)       *)
(***************************************************************************)
\* C14: parse_float_fr gives a result for every value.  A missing value stays
\* missing.  A text that, once its whitespace is removed, is an optional
\* minus sign followed by digits with at most one comma or period among them
\* (and at least one digit) gives that number, the comma or period being the
\* decimal separator; every other text gives missing.  "1 234,56" gives
\* 1234.56 and "12C" gives missing.
C14_ParseFrenchNumber ==
    pc = "parsed" =>
        LET digits == {"0", "1", "2", "3", "4", "5", "6", "7", "8", "9"}
            NotSpace(c) == c # " "
            stripped == SelectSeq(args, NotSpace)
            negative == stripped # <<>> /\ stripped[1] = "-"
            body == IF negative THEN Tail(stripped) ELSE stripped
            seps == {i \in 1..Len(body) : body[i] \in {",", "."}}
            NotSep(c) == c \notin {",", "."}
            ds == SelectSeq(body, NotSep)
            wellformed == /\ args # <<"<null>">>
                          /\ ds # <<>>
                          /\ \A i \in 1..Len(ds) : ds[i] \in digits
                          /\ Cardinality(seps) <= 1
            Digit(c) == CHOOSE k \in 0..9 : ToString(k) = c
            V[i \in 0..Len(ds)] ==
                IF i = 0 THEN 0 ELSE 10 * V[i - 1] + Digit(ds[i])
            decimals == IF seps = {} THEN 0
                        ELSE Len(body) - (CHOOSE i \in seps : TRUE)
            P[k \in 0..Len(body)] == IF k = 0 THEN 1 ELSE 10 * P[k - 1]
        IN  /\ IF wellformed
               THEN /\ out.d > 0
                    /\ out.n * P[decimals]
                         = (IF negative THEN -1 ELSE 1) * V[Len(ds)] * out.d
               ELSE out = [n |-> 0, d |-> 0]
            /\ args = <<"1"," ","2","3","4",",","5","6">>
                  => out.d > 0 /\ 100 * out.n = 123456 * out.d
            /\ args = <<"1","2","C">> => out = [n |-> 0, d |-> 0]

\* "1 234,56" has been parsed to 1234.56
C14_Witness ==
    /\ pc = "parsed"
    /\ args = <<"1"," ","2","3","4",",","5","6">>
    /\ out = Rat(123456, 100)

(***************************************************************************)
(* Properties of add_mutation_id (SpecKey: args is the table given)        *)
(***************************************************************************)
\* C12: add_mutation_id leaves every row as it is and adds a mutation_id that
\* is the seven key fields (Identifiant de document, Date mutation, Valeur
\* fonciere as raw text, Code departement, Code commune, Section, No plan)
\* in this order, each followed by '|' but the last, a missing field giving
\* the empty string; the key is never missing; two rows that agree on the
\* seven fields have the same key whatever their other columns.
C12_KeyIsJoinedFields ==
    pc = "keyed" =>
        LET E(x) == IF x = "<null>" THEN "" ELSE x
            Raw(v) == CASE v = <<"1","2","0","0","0","0">> -> "120000"
                        [] v = <<"1","2"," ","0","0","0",",","0","0">> -> "12 000,00"
                        [] v = <<"<null>">> -> ""
            Fields(r) == <<E(r.Identifiant_de_document), E(r.Date_mutation),
                           Raw(r.Valeur_fonciere), E(r.Code_departement),
                           E(r.Code_commune), E(r.Section), E(r.No_plan)>>
            Joined(f) == f[1] \o "|" \o f[2] \o "|" \o f[3] \o "|" \o f[4]
                            \o "|" \o f[5] \o "|" \o f[6] \o "|" \o f[7]
        IN  /\ Len(df) = Len(args)
            /\ \A i \in 1..Len(df) :
                  /\ df[i] = args[i] @@ [mutation_id |-> df[i].mutation_id]
                  /\ df[i].mutation_id = Joined(Fields(args[i]))
                  /\ df[i].mutation_id # "<null>"
            /\ \A i, j \in 1..Len(df) :
                  Fields(args[i]) = Fields(args[j])
                      => df[i].mutation_id = df[j].mutation_id

\* two rows with every key field missing, which differ in their property
\* type, both got the key of six delimiters
C12_Witness ==
    /\ pc = "keyed"
    /\ Len(df) = 2
    /\ df[1].Type_local # df[2].Type_local
    /\ df[1].Section = NullStr
    /\ df[1].mutation_id = "||||||"
    /\ df[2].mutation_id = "||||||"

\* C13: add_mutation_id, given a table without some of its seven key
\* columns, raises an error that lists exactly the missing ones and produces
\* no table, and given all seven it returns; filter_residential_sales does
\* the same for Nature mutation, Type local, price_eur, surface_bati and
\* surface_carrez.
C13_MissingColumnsFailFast ==
    [][ /\ pc = "loaded" =>
              LET missing == {"Identifiant_de_document", "Date_mutation",
                              "Valeur_fonciere", "Code_departement",
                              "Code_commune", "Section", "No_plan"} \ columns
              IN  IF missing = {}
                  THEN pc' = "keyed" /\ Len(df') = Len(df) /\ out' = out
                  ELSE /\ pc' = "raised"
                       /\ df' = <<>>
                       /\ out'.error = "KeyError"
                       /\ Range(out'.message[2]) = missing
        /\ pc = "keyed" =>
              LET missing == {"Nature_mutation", "Type_local", "price_eur",
                              "surface_bati", "surface_carrez"} \ columns
              IN  IF missing = {}
                  THEN pc' = "filtered" /\ out' = out
                  ELSE /\ pc' = "raised"
                       /\ df' = <<>>
                       /\ out'.error = "KeyError"
                       /\ Range(out'.message[2]) = missing
      ]_vars

\* add_mutation_id has raised on a table of two rows that lacks two key columns
C13_Witness ==
    /\ pc = "raised"
    /\ Len(args) = 2
    /\ out.error = "KeyError"
    /\ out.message = <<"Missing expected DVF columns for mutation_id: ",
                       <<"Date_mutation", "Section">>>>

(***************************************************************************)
(* Properties of filter_residential_sales (SpecFilter: args is the table   *)
(* given)                                                                  *)
(***************************************************************************)
\* C11: the table filter_residential_sales returns holds, in their order, the
\* rows of nature 'Vente' and type Maison/Appartement whose surface_final is
\* > 8 and whose price_eur is > 10000, surface_final being surface_bati when
\* that is present and > 0 and surface_carrez otherwise; a row whose
\* surface_bati is present, positive and <= 8 is dropped whatever its
\* surface_carrez, and so is a row with both surfaces missing.
C11_SurfaceFinalRule ==
    pc = "filtered" =>
        LET BatiUsable(r) == r.surface_bati.d > 0 /\ r.surface_bati.n > 0
            Expected(r) == IF BatiUsable(r) THEN r.surface_bati ELSE r.surface_carrez
            Passes(r) == /\ r.Nature_mutation = "Vente"
                         /\ r.Type_local \in {"Maison", "Appartement"}
            Kept(r) == /\ Passes(r)
                       /\ Expected(r).d > 0
                       /\ Expected(r).n > 8 * Expected(r).d
                       /\ r.price_eur.d > 0
                       /\ r.price_eur.n > 10000 * r.price_eur.d
            Final(r) == r @@ [surface_final |-> Expected(r)]
            kept == SelectSeq(args, Kept)
        IN  /\ df = [i \in 1..Len(kept) |-> Final(kept[i])]
            /\ \A i \in 1..Len(args) :
                  ( \/ /\ BatiUsable(args[i])
                       /\ args[i].surface_bati.n <= 8 * args[i].surface_bati.d
                    \/ /\ args[i].surface_bati.d = 0
                       /\ args[i].surface_carrez.d = 0 )
                  => \A j \in 1..Len(df) : df[j] # Final(args[i])

\* a row with built surface 8 and Carrez surface 20 was dropped, and a row
\* whose built surface is zero or negative was kept on its Carrez surface
C11_Witness ==
    /\ pc = "filtered"
    /\ \E i \in 1..Len(args) :
          /\ args[i].Nature_mutation = "Vente"
          /\ args[i].Type_local = "Maison"
          /\ args[i].surface_bati = Num(8)
          /\ args[i].surface_carrez = Num(20)
    /\ Len(df) = 1
    /\ ~IsNull(df[1].surface_bati)
    /\ df[1].surface_bati.n <= 0
    /\ df[1].surface_final = df[1].surface_carrez

(***************************************************************************)
(* Properties of compute_price_m2 (SpecPrice: args is the table given)     *)
(***************************************************************************)
\* C10: p10 and p90 are taken over exactly the rows whose price per area is
\* in [300, 30000], upper = min(p90 + 1.5 * (p90 - p10), 15000), and the
\* table returned holds exactly the rows of [300, 30000] whose price per
\* area is <= upper; no row at or above 300 and at most upper is dropped.
C10_RobustUpperBound ==
    (pc = "clean" /\ args # Unset) =>
        LET price(r) == RDiv(r.price_eur, r.surface_final)
            survivors == {r \in Range(args) :
                            /\ RLe(Num(300), price(r))
                            /\ RLe(price(r), Num(30000))}
            n == Cardinality(survivors)
            \* x is the value of rank round((n - 1) * pct / 100) of the survivors
            IsPercentile(x, pct) ==
                LET k == (2 * (n - 1) * pct + 100) \div 200
                IN  /\ Cardinality({r \in survivors : RLt(price(r), x)}) <= k
                    /\ k < Cardinality({r \in survivors : RLe(price(r), x)})
        IN  \E a, b \in survivors :
                /\ IsPercentile(price(a), 10)
                /\ IsPercentile(price(b), 90)
                /\ LET p10 == price(a)
                       p90 == price(b)
                       raw == RAdd(p90, RScale(3, 2, RSub(p90, p10)))
                       upper == IF RLe(raw, Num(15000)) THEN raw ELSE Num(15000)
                   IN  /\ {df[i].mutation_id : i \in 1..Len(df)}
                            = {r.mutation_id : r \in
                                 {q \in survivors : RLe(price(q), upper)}}
                       /\ \A i \in 1..Len(df) :
                             /\ RLe(Num(300), df[i].price_m2)
                             /\ RLe(df[i].price_m2, upper)
                             /\ \E r \in survivors :
                                   df[i] = r @@ [price_m2 |-> price(r)]
                       /\ \A i, j \in 1..Len(df) : df[i] = df[j] => i = j

\* seven or more rows passed the initial bounds and the robust bound, below
\* the ceiling, removed one of them while rows above 30000 and below 300
\* were in the table
C10_Witness ==
    /\ pc = "clean"
    /\ args # Unset
    /\ Len(Stage1(args)) >= 7
    /\ Len(df) < Len(Stage1(args))
    /\ RLt(UpperBound(Stage1(args)), Num(15000))
    /\ Len(Stage1(args)) < Len(args)

(***************************************************************************)
(* Aggregation (aggregate.py).  The clean table the aggregation reads is   *)
(* [cols, rows]: the set of its column names and the bag of its rows, a    *)
(* row being a function from the columns the aggregation reads to their    *)
(* values (a summary never depends on the order of the clean rows).        *)
(***************************************************************************)
MIN_SALES_DEFAULT == 10

MIN_SALES_BY_LEVEL_AllDefault(level) == MIN_SALES_DEFAULT

MIN_SALES_BY_LEVEL(level) ==
    CASE level = "country" -> 100
      [] level = "region" -> 100
      [] level = "department" -> 50
      [] level = "commune" -> 10
      [] level = "postcode" -> 10
      [] level = "iris" -> 10

\* the texts of the model in the order of their characters (the order polars
\* sorts and compares text in); a missing text sorts first
Lexicographic ==
    <<"03/01/2025", "055", "101", "11", "13", "13001", "15/02/2025",
      "28/01/2025", "75", "75001", "751010101", "751010102", "93",
      "Appartement", "Maison">>

TextRank(x) ==
    IF x = NullStr THEN 0
    ELSE CHOOSE i \in 1..Len(Lexicographic) : Lexicographic[i] = x

\* the largest text of a non-empty set of texts
TextMax(S) == CHOOSE x \in S : \A y \in S : TextRank(y) <= TextRank(x)

\* mutant: the sort is descending
RECURSIVE RowLess_Descending(_, _, _)
RowLess_Descending(a, b, by) ==
    /\ by # <<>>
    /\ \/ TextRank(a[Head(by)]) > TextRank(b[Head(by)])
       \/ a[Head(by)] = b[Head(by)] /\ RowLess_Descending(a, b, Tail(by))

\* rows a and b compared on the columns by, in turn (sort, nulls first)
RECURSIVE RowLess(_, _, _)
RowLess(a, b, by) ==
    /\ by # <<>>
    /\ \/ TextRank(a[Head(by)]) < TextRank(b[Head(by)])
       \/ a[Head(by)] = b[Head(by)] /\ RowLess(a, b, Tail(by))

\* .sort(by) of a set of rows no two of which agree on the columns by
RECURSIVE Sort(_, _)
Sort(S, by) ==
    IF S = {} THEN <<>>
    ELSE LET m == CHOOSE x \in S : \A y \in S \ {x} : RowLess(x, y, by)
         IN  <<m>> \o Sort(S \ {m}, by)

\* .median(): linear interpolation between the two middle values
Median(col) ==
    IF Sum(col) = 0 THEN NullNum
    ELSE LET lo == Ranked(col, (Sum(col) - 1) \div 2)
             hi == Ranked(col, Sum(col) \div 2)
         IN  RScale(1, 2, RAdd(lo, hi))

\* .max() of a text column: the largest text that is not missing
Max(S) == IF S \ {NullStr} = {} THEN NullStr ELSE TextMax(S \ {NullStr})

\* mutant: groups of exactly min_sales sales are dropped (> instead of >=)
EnoughSales_Strict(n_sales, min_sales) == n_sales > min_sales

\* .filter(pl.col("n_sales") >= min_sales)
EnoughSales(n_sales, min_sales) == n_sales >= min_sales

\* mutant: a table without rows makes the aggregation raise as well
AggregateRaises_OnEmpty(t, group_cols) ==
    \/ DOMAIN t.rows = {}
    \/ \E c \in Range(group_cols) \cup {"Type_local", "price_m2", "Date_mutation"} :
          c \notin t.cols

\* a column the aggregation names is not in the table: polars raises
AggregateRaises(t, group_cols) ==
    \E c \in Range(group_cols) \cup {"Type_local", "price_m2", "Date_mutation"} :
        c \notin t.cols

\* mutant: rows with a missing grouping value are in no group
aggregate_price_DropsNullKeys(t, group_cols, min_sales) ==
    LET by == group_cols \o <<"Type_local">>
        KeyOf(r) == [c \in Range(by) |-> r[c]]
        groups == {KeyOf(r) : r \in {q \in DOMAIN t.rows :
                                        \A c \in Range(by) : q[c] # NullStr}}
        Members(g) == {r \in DOMAIN t.rows : KeyOf(r) = g}
        Prices(g) ==
            [v \in {r.price_m2 : r \in Members(g)} |->
                SumOver({r \in Members(g) : r.price_m2 = v}, t.rows)]
        Agg(g) ==
            g @@ [n_sales |-> SumOver(Members(g), t.rows),
                  median_price_m2 |-> Median(Prices(g)),
                  p25_price_m2 |-> Quantile(Prices(g), 25),
                  p75_price_m2 |-> Quantile(Prices(g), 75),
                  last_tx_date |-> Max({r.Date_mutation : r \in Members(g)})]
    IN  Sort({a \in {Agg(g) : g \in groups} : EnoughSales(a.n_sales, min_sales)},
             by)

aggregate_price(t, group_cols, min_sales) ==
    LET by == group_cols \o <<"Type_local">>
        KeyOf(r) == [c \in Range(by) |-> r[c]]
        \* df.group_by(group_cols + ["Type local"]): a missing value is a key
        groups == {KeyOf(r) : r \in DOMAIN t.rows}
        Members(g) == {r \in DOMAIN t.rows : KeyOf(r) = g}
        Prices(g) ==
            [v \in {r.price_m2 : r \in Members(g)} |->
                SumOver({r \in Members(g) : r.price_m2 = v}, t.rows)]
        Agg(g) ==
            g @@ [n_sales |-> SumOver(Members(g), t.rows),
                  median_price_m2 |-> Median(Prices(g)),
                  p25_price_m2 |-> Quantile(Prices(g), 25),
                  p75_price_m2 |-> Quantile(Prices(g), 75),
                  last_tx_date |-> Max({r.Date_mutation : r \in Members(g)})]
    IN  Sort({a \in {Agg(g) : g \in groups} : EnoughSales(a.n_sales, min_sales)},
             by)

(***************************************************************************)
(* add_region_code                                                         *)
(***************************************************************************)
\* the mapping read from layer DEPARTEMENT of the resource, when it is
\* there: department 13 is not in it
DeptToRegion == [d \in {"75"} |-> "11"]

\* the states of the resource: unreadable (geopandas or the file missing),
\* without the region column, or in order
GpkgStates ==
    {[readable |-> FALSE, region_column |-> FALSE],
     [readable |-> TRUE, region_column |-> FALSE],
     [readable |-> TRUE, region_column |-> TRUE]}

\* df.with_columns(value.alias(name)) on the bag of rows
WithColumn(t, name, value) ==
    LET Put(r) == [c \in DOMAIN r \cup {name} |->
                      IF c = name THEN value[r] ELSE r[c]]
    IN  [cols |-> t.cols \cup {name},
         rows |-> [q \in {Put(r) : r \in DOMAIN t.rows} |->
                      SumOver({r \in DOMAIN t.rows : Put(r) = q}, t.rows)]]

\* mutant: the mapping is applied whatever the state of the resource
add_region_code_AlwaysMapped(t, g) ==
    LET Mapped == [r \in DOMAIN t.rows |->
                      IF r.Code_departement \in DOMAIN DeptToRegion
                      THEN DeptToRegion[r.Code_departement]
                      ELSE NullStr]
    IN  WithColumn(t, "Code_region", Mapped)

\* mutant: a department that is not in the mapping keeps its own code as
\* region code (.replace without default=None)
add_region_code_KeepsUnmapped(t, g) ==
    LET Mapped == [r \in DOMAIN t.rows |->
                      IF r.Code_departement \in DOMAIN DeptToRegion
                      THEN DeptToRegion[r.Code_departement]
                      ELSE r.Code_departement]
        Missing == [r \in DOMAIN t.rows |-> NullStr]
    IN  IF g.readable /\ g.region_column
        THEN WithColumn(t, "Code_region", Mapped)
        ELSE WithColumn(t, "Code_region", Missing)

add_region_code(t, g) ==
    LET \* .replace(dept_to_region, default=None)
        Mapped == [r \in DOMAIN t.rows |->
                      IF r.Code_departement \in DOMAIN DeptToRegion
                      THEN DeptToRegion[r.Code_departement]
                      ELSE NullStr]
        \* pl.lit(None)
        Missing == [r \in DOMAIN t.rows |-> NullStr]
    IN  IF g.readable /\ g.region_column
        THEN WithColumn(t, "Code_region", Mapped)
        ELSE WithColumn(t, "Code_region", Missing)

(***************************************************************************)
(* The clean tables the aggregation is run on: sales of five kinds, in     *)
(* communes 75/101, 13/101 and 13/055.                                     *)
(***************************************************************************)
CleanRow(dept, commune, postal, iris, type, price, date) ==
    [Code_departement |-> dept, Code_commune |-> commune, Code_postal |-> postal,
     CODE_IRIS |-> iris, Type_local |-> type, price_m2 |-> Num(price),
     Date_mutation |-> date]

CleanKinds ==
    <<CleanRow("75", "101", "75001", "751010101", "Appartement", 6000, "03/01/2025"),
      CleanRow("75", "101", "75001", "751010101", "Appartement", 7000, "15/02/2025"),
      CleanRow("75", "101", "75001", "751010102", "Appartement", 8000, "28/01/2025"),
      CleanRow("13", "101", "13001", NullStr, "Appartement", 3000, "15/02/2025"),
      CleanRow("13", "055", "13001", NullStr, "Maison", 2000, "03/01/2025")>>

\* the columns of a clean table that went through the spatial join, of one
\* that did not, and of one made from an export without postal codes
CleanColumns ==
    LET all == DOMAIN CleanKinds[1]
    IN  {all, all \ {"CODE_IRIS"}, all \ {"CODE_IRIS", "Code_postal"}}

\* the table of columns cols holding c[i] sales of kind i
CleanTable(c, cols) ==
    LET I == {i \in 1..Len(CleanKinds) : c[i] > 0}
        Count(q) ==
            LET J == {i \in I : Cut(CleanKinds[i], cols) = q}
                N[S \in SUBSET J] ==
                    IF S = {} THEN 0
                    ELSE LET i == CHOOSE j \in S : TRUE
                         IN  c[i] + N[S \ {i}]
            IN  N[J]
    IN  [cols |-> cols,
         rows |-> [q \in {Cut(CleanKinds[i], cols) : i \in I} |-> Count(q)]]

CleanTables(counts) ==
    {CleanTable(c, cols) :
        c \in [1..Len(CleanKinds) -> counts], cols \in CleanColumns}

(***************************************************************************)
(* aggregate_price on its own                                              *)
(***************************************************************************)
\* largest number of sales of one kind
MaxSales == 2

GroupColsChoices ==
    {<<>>, <<"Code_departement">>, <<"Code_commune">>,
     <<"Code_departement", "Code_commune">>}

MinSalesChoices == {2, 3}

InitAggPrice ==
    /\ pc = "aggregate_price"
    /\ df \in CleanTables(0..MaxSales)
    /\ args \in [group_cols : GroupColsChoices, min_sales : MinSalesChoices]
    /\ out = Unset
    /\ file = Unset
    /\ columns = Unset
    /\ status = NotExited
    /\ clean_file = Unset
    /\ gpkg = Unset
    /\ results = Unset
    /\ marts = Unset

AggregatePrice ==
    /\ pc = "aggregate_price"
    /\ out' = aggregate_price(df, args.group_cols, args.min_sales)
    /\ pc' = "aggregate_price_returned"
    /\ UNCHANGED <<file, columns, df, args, aggVars, status>>

NextAggPrice == AggregatePrice

SpecAggPrice == InitAggPrice /\ [][NextAggPrice]_vars

(***************************************************************************)
(* aggregate_all_levels                                                    *)
(***************************************************************************)
Levels == <<"country", "region", "department", "commune", "postcode", "iris">>

\* mutant: the commune level groups by department and commune
GroupCols_CommuneInDepartment(level) ==
    CASE level = "country" -> <<>>
      [] level = "region" -> <<"Code_region">>
      [] level = "department" -> <<"Code_departement">>
      [] level = "commune" -> <<"Code_departement", "Code_commune">>
      [] level = "postcode" -> <<"Code_postal">>
      [] level = "iris" -> <<"CODE_IRIS">>

GroupCols(level) ==
    CASE level = "country" -> <<>>
      [] level = "region" -> <<"Code_region">>
      [] level = "department" -> <<"Code_departement">>
      [] level = "commune" -> <<"Code_commune">>
      [] level = "postcode" -> <<"Code_postal">>
      [] level = "iris" -> <<"CODE_IRIS">>

\* the position after a level is done
After(level) ==
    IF level = "iris" THEN "returned"
    ELSE Levels[1 + CHOOSE i \in 1..Len(Levels) : Levels[i] = level]

\* the numbers of sales of one kind in a clean table
SaleCounts == {0, 1, 9, 50}

\* a dataset on disk: the run that wrote it and its rows
Dataset(run, rows) == [run |-> run, rows |-> rows]

\* the clean dataset is not on disk
NoCleanFile == [cols |-> {}, rows |-> <<>>]

InitAgg ==
    /\ pc = "load"
    /\ clean_file \in CleanTables(SaleCounts) \cup {NoCleanFile}
    /\ gpkg \in GpkgStates
    /\ marts = [l \in Range(Levels) |-> Dataset("earlier", <<>>)]
    /\ results = Unset
    /\ df = Unset
    /\ file = Unset
    /\ columns = Unset
    /\ status = NotExited
    /\ args = Unset
    /\ out = Unset

\* df = pl.read_parquet(input_path); df = add_region_code(df); results = {}
LoadClean ==
    /\ pc = "load"
    /\ Exists(clean_file.cols)
    /\ df' = add_region_code(clean_file, gpkg)
    /\ results' = Unset
    /\ pc' = "country"
    /\ UNCHANGED <<file, columns, args, out, clean_file, gpkg, marts, status>>

\* pl.read_parquet raises: the error is logged and raised again
LoadCleanRaises ==
    /\ pc = "load"
    /\ ~Exists(clean_file.cols)
    /\ out' = Raised("FileNotFoundError", "No such file or directory", <<>>,
                     "aggregate_all_levels")
    /\ pc' = "reraised"
    /\ UNCHANGED <<file, columns, df, args, aggVars, status>>

\* steps 1 to 5: aggregate, write the dataset, record the summary
AggregateLevel(level) ==
    /\ pc = level
    /\ ~AggregateRaises(df, GroupCols(level))
    /\ LET agg == aggregate_price(df, GroupCols(level), MIN_SALES_BY_LEVEL(level))
       IN  /\ marts' = [marts EXCEPT ![level] = Dataset("this", agg)]
           /\ results' = results @@ (level :> agg)
    /\ pc' = After(level)
    /\ UNCHANGED <<file, columns, df, args, out, clean_file, gpkg, status>>

\* a step raises (a grouping column is not in the table): the error is logged
\* and raised again
AggregateLevelRaises(level) ==
    /\ pc = level
    /\ AggregateRaises(df, GroupCols(level))
    /\ out' = Raised("ColumnNotFoundError", "", GroupCols(level),
                     "aggregate_all_levels")
    /\ pc' = "reraised"
    /\ UNCHANGED <<file, columns, df, args, aggVars, status>>

\* mutant: step 6 is always skipped
AggregateIris_Skips ==
    /\ pc = "iris"
    /\ pc' = After("iris")
    /\ UNCHANGED <<file, columns, df, args, out, aggVars, status>>

\* step 6: only if the table has column CODE_IRIS
AggregateIris ==
    /\ pc = "iris"
    /\ IF "CODE_IRIS" \in df.cols
       THEN LET agg == aggregate_price(df, GroupCols("iris"), MIN_SALES_BY_LEVEL("iris"))
            IN  /\ marts' = [marts EXCEPT !["iris"] = Dataset("this", agg)]
                /\ results' = results @@ ("iris" :> agg)
       ELSE UNCHANGED <<marts, results>>
    /\ pc' = After("iris")
    /\ UNCHANGED <<file, columns, df, args, out, clean_file, gpkg, status>>

\* __main__: print_aggregation_summary(results), then the script ends
PrintAggregationSummary ==
    /\ pc = "returned"
    /\ status' = 0
    /\ pc' = "exited"
    /\ UNCHANGED <<file, columns, df, args, out, aggVars>>

\* __main__: except Exception: sys.exit(1)
AggregationFailed ==
    /\ pc = "reraised"
    /\ status' = 1
    /\ pc' = "exited"
    /\ UNCHANGED <<file, columns, df, args, out, aggVars>>

NextAgg ==
    \/ LoadClean
    \/ LoadCleanRaises
    \/ \E level \in {"country", "region", "department", "commune", "postcode"} :
          \/ AggregateLevel(level)
          \/ AggregateLevelRaises(level)
    \/ AggregateIris
    \/ PrintAggregationSummary
    \/ AggregationFailed

SpecAgg == InitAgg /\ [][NextAgg]_vars

(***************************************************************************)
(* add_region_code and the region level on their own: clean tables with    *)
(* sales of department 75, which the mapping has, of departments 13 and 93, *)
(* which it has not, and sales without a department code.                  *)
(***************************************************************************)
RegionKinds ==
    {CleanRow("75", "101", "75001", NullStr, "Appartement", 6000, "03/01/2025"),
     CleanRow("13", "101", "13001", NullStr, "Appartement", 3000, "15/02/2025"),
     CleanRow("93", "101", "13001", NullStr, "Appartement", 3000, "28/01/2025"),
     CleanRow("13", "055", "13001", NullStr, "Maison", 2000, "03/01/2025"),
     CleanRow("93", "055", "13001", NullStr, "Maison", 2000, "03/01/2025"),
     CleanRow(NullStr, "055", "13001", NullStr, "Maison", 2000, "03/01/2025")}

\* the numbers of sales of one kind in a clean table
RegionCounts == {0, 50, 100}

RegionTables ==
    {[cols |-> DOMAIN CleanKinds[1],
      rows |-> [r \in {k \in RegionKinds : c[k] > 0} |-> c[r]]] :
        c \in [RegionKinds -> RegionCounts]}

InitRegion ==
    /\ pc = "add_region_code"
    /\ df \in RegionTables
    /\ args = df
    /\ gpkg \in GpkgStates
    /\ out = Unset
    /\ file = Unset
    /\ columns = Unset
    /\ status = NotExited
    /\ clean_file = Unset
    /\ results = Unset
    /\ marts = Unset

\* df = add_region_code(df)
AddRegionCode ==
    /\ pc = "add_region_code"
    /\ df' = add_region_code(df, gpkg)
    /\ pc' = "region"
    /\ UNCHANGED <<file, columns, args, out, aggVars, status>>

\* region_agg = aggregate_price(df, ["Code region"], min_sales=...)
AggregateRegion ==
    /\ pc = "region"
    /\ out' = aggregate_price(df, GroupCols("region"), MIN_SALES_BY_LEVEL("region"))
    /\ pc' = "region_returned"
    /\ UNCHANGED <<file, columns, df, args, aggVars, status>>

NextRegion == AddRegionCode \/ AggregateRegion

SpecRegion == InitRegion /\ [][NextRegion]_vars

(***************************************************************************)
(* The levels of aggregate_all_levels aggregated in any order and          *)
(* interleaved: every level reads the table df that add_region_code        *)
(* returned, its summary is computed (aggregate_price) and, at some later  *)
(* point, written and recorded.  args holds the summaries computed and not *)
(* yet written.                                                            *)
(***************************************************************************)
\* the numbers of sales of one kind in a clean table
LevelCounts == {0, 50}

LevelsColumns ==
    LET all == DOMAIN CleanKinds[1]
    IN  {all, all \ {"CODE_IRIS"}}

InitLevels ==
    /\ pc = "levels"
    /\ clean_file \in {CleanTable(c, cols) :
                          c \in [1..Len(CleanKinds) -> LevelCounts],
                          cols \in LevelsColumns}
    /\ gpkg \in {g \in GpkgStates : g.readable = g.region_column}
    /\ df = add_region_code(clean_file, gpkg)
    /\ marts = [l \in Range(Levels) |-> Dataset("earlier", <<>>)]
    /\ results = Unset
    /\ args = Unset
    /\ file = Unset
    /\ columns = Unset
    /\ status = NotExited
    /\ out = Unset

\* mutant: the threshold filter of the level is applied to the table itself,
\* which the other levels read
ComputeLevel_InPlace(level) ==
    /\ pc = "levels"
    /\ level \notin DOMAIN args \cup DOMAIN results
    /\ level = "iris" => "CODE_IRIS" \in df.cols
    /\ LET agg == aggregate_price(df, GroupCols(level), MIN_SALES_BY_LEVEL(level))
           by == Range(GroupCols(level)) \cup {"Type_local"}
           kept == {r \in DOMAIN df.rows :
                      \E i \in 1..Len(agg) : \A c \in by : agg[i][c] = r[c]}
       IN  /\ args' = args @@ (level :> agg)
           /\ df' = [df EXCEPT !.rows = [r \in kept |-> df.rows[r]]]
    /\ UNCHANGED <<pc, file, columns, out, aggVars, status>>

\* level_agg = aggregate_price(df, group_cols, min_sales=...): df is read only
ComputeLevel(level) ==
    /\ pc = "levels"
    /\ level \notin DOMAIN args \cup DOMAIN results
    /\ level = "iris" => "CODE_IRIS" \in df.cols
    /\ args' = args @@
          (level :> aggregate_price(df, GroupCols(level), MIN_SALES_BY_LEVEL(level)))
    /\ UNCHANGED <<pc, file, columns, df, out, aggVars, status>>

\* level_agg.write_parquet(get_mart_path(level)); results[level] = level_agg
WriteLevel(level) ==
    /\ pc = "levels"
    /\ level \in DOMAIN args
    /\ marts' = [marts EXCEPT ![level] = Dataset("this", args[level])]
    /\ results' = results @@ (level :> args[level])
    /\ args' = [l \in DOMAIN args \ {level} |-> args[l]]
    /\ UNCHANGED <<pc, file, columns, df, out, clean_file, gpkg, status>>

NextLevels ==
    \E level \in Range(Levels) :
        \/ ComputeLevel(level)
        \/ WriteLevel(level)

SpecLevels == InitLevels /\ [][NextLevels]_vars

(***************************************************************************)
(* aggregate_all_levels on a disk that may refuse a write: write_parquet   *)
(* opens the dataset's path for writing, which empties it, and then writes *)
(* the rows, so a write that fails leaves either the dataset that was      *)
(* there (the path could not be opened) or an incomplete one.              *)
(***************************************************************************)
\* what a write that failed after opening the path leaves there
Incomplete == Dataset("failed", <<>>)

InitWrite ==
    /\ pc = "load"
    /\ clean_file \in {CleanTable(c, cols) :
                          c \in [1..Len(CleanKinds) -> LevelCounts],
                          cols \in CleanColumns}
                      \cup {NoCleanFile}
    /\ gpkg \in GpkgStates
    /\ marts = [l \in Range(Levels) |-> Dataset("earlier", <<>>)]
    /\ results = Unset
    /\ df = Unset
    /\ file = Unset
    /\ columns = Unset
    /\ status = NotExited
    /\ args = Unset
    /\ out = Unset

\* the summary of a level is computed and level_agg.write_parquet(output_path)
\* raises: results[level] is not assigned, the error is logged and raised again
WriteLevelFails(level) ==
    /\ pc = level
    /\ ~AggregateRaises(df, GroupCols(level))
    /\ \E left \in {marts[level], Incomplete} :
          marts' = [marts EXCEPT ![level] = left]
    /\ out' = Raised("OSError", "write_parquet", <<level>>, "aggregate_all_levels")
    /\ pc' = "reraised"
    /\ UNCHANGED <<file, columns, df, args, clean_file, gpkg, results, status>>

NextWrite ==
    \/ NextAgg
    \/ \E level \in Range(Levels) : WriteLevelFails(level)

SpecWrite == InitWrite /\ [][NextWrite]_vars

(***************************************************************************)
(* The cleaning script (__main__ of clean_dvf.py): build_clean_transactions *)
(* on a raw file that may be absent or lack a column, the sanity checks    *)
(* and the write of the clean dataset.                                     *)
(***************************************************************************)
MaxMainRows == 2

MainLines ==
    { \* 6000 EUR/m2
      RawLine("D1", <<"1","2","0","0","0","0">>, "Vente", "Appartement",
              <<"2","0">>, NullText),
      \* 20000 EUR/m2: inside the initial bounds, above the ceiling
      RawLine("D2", <<"2","0","0","0","0","0">>, "Vente", "Appartement",
              <<"1","0">>, NullText),
      \* 40000 EUR/m2: above the initial bounds
      RawLine("D3", <<"4","0","0","0","0","0">>, "Vente", "Maison",
              <<"1","0">>, NullText),
      \* 6000 EUR/m2, the Carrez surface cannot be parsed
      RawLine("D4", <<"1","2","0","0","0","0">>, "Vente", "Maison",
              <<"2","0">>, <<"1","2","C">>),
      \* the declared price cannot be parsed
      RawLine("D5", <<"1","2","C">>, "Vente", "Maison", <<"2","0">>, NullText),
      \* not a sale
      RawLine("D6", <<"1","2","0","0","0","0">>, "Echange", "Maison",
              <<"2","0">>, NullText) }

\* the header of the raw file: complete, without one column, or no file
MainColumns ==
    {RawColumns, RawColumns \ {"Section"}, RawColumns \ {"Nature_mutation"},
     RawColumns \ {"Surface_terrain"}, {}}

\* df_clean.write_parquet(output_path): the dataset is the columns and the
\* rows of the table
Parquet(t, cols) ==
    [cols |-> cols,
     rows |-> [r \in Range(t) |-> Cardinality({i \in 1..Len(t) : t[i] = r})]]

\* the clean dataset an earlier run of the script left on disk
EarlierClean == Parquet(<<[mutation_id |-> "earlier"]>>, {"mutation_id"})

InitMain ==
    /\ pc = "start"
    /\ columns \in MainColumns
    /\ file \in IF Exists(columns)
                THEN SeqsUpTo({Cut(l, columns) : l \in MainLines}, MaxMainRows)
                ELSE {<<>>}
    /\ status = NotExited
    /\ df = Unset
    /\ args = Unset
    /\ out = Unset
    /\ clean_file \in {Unset, EarlierClean}
    /\ gpkg = Unset
    /\ results = Unset
    /\ marts = Unset

\* load_dvf raises: the file cannot be opened, or a column it parses is not
\* in the file
LoadDvfRaises ==
    /\ pc = "start"
    /\ ~Exists(columns) \/ MissingColumns(LOAD_COLS, columns) # <<>>
    /\ out' = IF ~Exists(columns)
              THEN Raised("FileNotFoundError", "No such file or directory", <<>>,
                          "load_dvf")
              ELSE Raised("ColumnNotFoundError", "",
                          <<Head(MissingColumns(LOAD_COLS, columns))>>, "load_dvf")
    /\ pc' = "raised"
    /\ UNCHANGED <<file, columns, df, args, aggVars, status>>

\* the sanity checks of a table without rows: the median and the quantile
\* are None, and formatting None with ':.2f' raises TypeError
SanityChecksRaise ==
    /\ pc = "clean"
    /\ df = <<>>
    /\ out' = Raised("TypeError",
                     "unsupported format string passed to NoneType.__format__",
                     <<>>, "__main__")
    /\ pc' = "raised"
    /\ UNCHANGED <<file, columns, df, args, aggVars, status>>

\* the sanity checks pass, the clean dataset is written and the script ends
SaveClean ==
    /\ pc = "clean"
    /\ df # <<>>
    /\ clean_file' = Parquet(df, columns)
    /\ status' = 0
    /\ pc' = "exited"
    /\ UNCHANGED <<file, columns, df, args, out, gpkg, results, marts>>

\* mutant: the clean dataset is written on the failure path as well
CleaningFailed_Saves ==
    /\ pc = "raised"
    /\ clean_file' = Parquet(<<>>, columns)
    /\ status' = 1
    /\ pc' = "exited"
    /\ UNCHANGED <<file, columns, df, args, out, gpkg, results, marts>>

\* except Exception: the error is logged and sys.exit(1)
CleaningFailed ==
    /\ pc = "raised"
    /\ status' = 1
    /\ pc' = "exited"
    /\ UNCHANGED <<file, columns, df, args, out, aggVars>>

NextMain ==
    \/ LoadDvf
    \/ LoadDvfRaises
    \/ AddMutationId
    \/ AddMutationIdRaises
    \/ FilterResidentialSales
    \/ FilterResidentialSalesRaises
    \/ SelectMainLocal
    \/ ComputePriceM2
    \/ SanityChecksRaise
    \/ SaveClean
    \/ CleaningFailed

SpecMain == InitMain /\ [][NextMain]_vars

(***************************************************************************)
(* The two scripts, each run on its own                                    *)
(***************************************************************************)
InitScripts == InitMain \/ InitAgg

NextScripts == NextMain \/ NextAgg

SpecScripts == InitScripts /\ [][NextScripts]_vars

(***************************************************************************)
(* Properties of the aggregation                                           *)
(***************************************************************************)
\* C7: in every summary aggregate_all_levels produces, every row has
\* n_sales >= the threshold of its level (country 100, region 100,
\* department 50, commune 10, postcode 10, iris 10), n_sales being the number
\* of sales of the row's (geography, property type), and a (geography,
\* property type) with fewer sales than the threshold has no row at all.
C7_ThresholdPerLevel ==
    \A level \in DOMAIN results :
        LET threshold == CASE level = "country" -> 100
                           [] level = "region" -> 100
                           [] level = "department" -> 50
                           [] level = "commune" -> 10
                           [] level = "postcode" -> 10
                           [] level = "iris" -> 10
            geo == CASE level = "country" -> {}
                     [] level = "region" -> {"Code_region"}
                     [] level = "department" -> {"Code_departement"}
                     [] level = "commune" -> {"Code_commune"}
                     [] level = "postcode" -> {"Code_postal"}
                     [] level = "iris" -> {"CODE_IRIS"}
            summary == results[level]
            \* the sales of the geography and property type of a
            Sales(a) ==
                SumOver({r \in DOMAIN df.rows :
                            /\ r.Type_local = a.Type_local
                            /\ \A c \in geo : r[c] = a[c]}, df.rows)
        IN  /\ \A i \in 1..Len(summary) :
                  /\ summary[i].n_sales >= threshold
                  /\ summary[i].n_sales = Sales(summary[i])
            /\ \A r \in DOMAIN df.rows :
                  Sales(r) < threshold =>
                      ~ \E i \in 1..Len(summary) :
                            /\ summary[i].Type_local = r.Type_local
                            /\ \A c \in geo : summary[i][c] = r[c]
            /\ marts[level] = [run |-> "this", rows |-> summary]

\* a run returns with a country row (100 sales or more), a commune row, and
\* a commune and property type of one sale that has no row
C7_Witness ==
    /\ pc = "returned"
    /\ Len(results["country"]) >= 1
    /\ Len(results["commune"]) >= 1
    /\ \E r \in DOMAIN df.rows :
          /\ SumOver({q \in DOMAIN df.rows :
                         /\ q.Type_local = r.Type_local
                         /\ q.Code_commune = r.Code_commune}, df.rows) = 1
          /\ \A i \in 1..Len(results["commune"]) :
                \/ results["commune"][i].Type_local # r.Type_local
                \/ results["commune"][i].Code_commune # r.Code_commune

\* C8: aggregate_price returns at most one row per combination of (values of
\* G, Type local); the row's n_sales is the number of clean rows with exactly
\* those values; a combination has a row if and only if that number is >= m;
\* with G empty there is one candidate row per property type.
C8_OneRowPerGroup ==
    pc = "aggregate_price_returned" =>
        LET G == Range(args.group_cols) \cup {"Type_local"}
            combinations == {[c \in G |-> r[c]] : r \in DOMAIN df.rows}
            Sales(k) ==
                SumOver({r \in DOMAIN df.rows : \A c \in G : r[c] = k[c]}, df.rows)
            RowsOf(k) == {i \in 1..Len(out) : \A c \in G : out[i][c] = k[c]}
        IN  /\ \A k \in combinations :
                  /\ Cardinality(RowsOf(k)) <= 1
                  /\ (RowsOf(k) # {}) <=> (Sales(k) >= args.min_sales)
                  /\ \A i \in RowsOf(k) : out[i].n_sales = Sales(k)
            /\ \A i \in 1..Len(out) : [c \in G |-> out[i][c]] \in combinations
            /\ args.group_cols = <<>> =>
                  /\ combinations =
                        {[Type_local |-> r.Type_local] : r \in DOMAIN df.rows}
                  /\ Len(out) <= Cardinality({r.Type_local : r \in DOMAIN df.rows})

\* grouped by department and commune: one group of exactly m sales has its
\* row and another group with fewer sales has none
C8_Witness ==
    /\ pc = "aggregate_price_returned"
    /\ args.group_cols = <<"Code_departement", "Code_commune">>
    /\ \E i \in 1..Len(out) : out[i].n_sales = args.min_sales
    /\ Len(out) < Cardinality({<<r.Code_departement, r.Code_commune, r.Type_local>> :
                                  r \in DOMAIN df.rows})

\* C9: three clean rows of department 75, commune 101, Appartement, with
\* price per area 6000, 7000 and 8000, grouped by commune with threshold 2,
\* give n_sales = 3, median 7000, p25 within 1 of 6500 and p75 within 1 of 7500.
C9_InterpolatedQuartiles ==
    ( /\ pc = "aggregate_price_returned"
      /\ args = [group_cols |-> <<"Code_commune">>, min_sales |-> 2]
      /\ {r.price_m2 : r \in DOMAIN df.rows} = {Num(6000), Num(7000), Num(8000)}
      /\ \A r \in DOMAIN df.rows :
            /\ df.rows[r] = 1
            /\ r.Code_departement = "75"
            /\ r.Code_commune = "101"
            /\ r.Type_local = "Appartement" )
    => \E i \in 1..Len(out) :
          /\ out[i].Code_commune = "101"
          /\ out[i].Type_local = "Appartement"
          /\ out[i].n_sales = 3
          /\ out[i].median_price_m2 = Num(7000)
          /\ RLe(Num(6499), out[i].p25_price_m2)
          /\ RLe(out[i].p25_price_m2, Num(6501))
          /\ RLe(Num(7499), out[i].p75_price_m2)
          /\ RLe(out[i].p75_price_m2, Num(7501))

\* C15: when the department-to-region mapping cannot be loaded (the resource
\* is unreadable or has no region column), add_region_code does not raise:
\* the table aggregated has the rows of the clean table, each with a missing
\* Code region; the region summary then has at most one row per property
\* type, with a missing Code region and the number of all sales of the type,
\* present exactly when that number is >= 100; the other levels' summaries
\* are the ones an available mapping gives.
C15_UnavailableMappingIsNotFatal ==
    ~(gpkg.readable /\ gpkg.region_column) =>
        /\ pc = "reraised" =>
              ~Exists(clean_file.cols) \/ "Code_postal" \notin clean_file.cols
        /\ pc \notin {"load", "reraised", "exited"} =>
              /\ df.cols = clean_file.cols \cup {"Code_region"}
              /\ \A r \in DOMAIN df.rows : r.Code_region = "<null>"
              /\ {[c \in clean_file.cols |-> r[c]] : r \in DOMAIN df.rows}
                    = DOMAIN clean_file.rows
              /\ \A r \in DOMAIN df.rows :
                    df.rows[r] = clean_file.rows[[c \in clean_file.cols |-> r[c]]]
        /\ "region" \in DOMAIN results =>
              LET region == results["region"]
                  Sales(type) ==
                      SumOver({r \in DOMAIN clean_file.rows : r.Type_local = type},
                              clean_file.rows)
              IN  /\ \A i \in 1..Len(region) :
                        /\ region[i].Code_region = "<null>"
                        /\ region[i].n_sales = Sales(region[i].Type_local)
                  /\ \A i, j \in 1..Len(region) :
                        region[i].Type_local = region[j].Type_local => i = j
                  /\ \A type \in {"Maison", "Appartement"} :
                        (Sales(type) >= 100)
                          <=> \E i \in 1..Len(region) : region[i].Type_local = type
        /\ \A level \in DOMAIN results \ {"region"} :
              results[level] =
                  aggregate_price(
                      add_region_code(clean_file,
                                      [readable |-> TRUE, region_column |-> TRUE]),
                      GroupCols(level), MIN_SALES_BY_LEVEL(level))

\* the resource is unreadable, the run has returned, and the sales of
\* departments 75 and 13, 100 or more together, are in one region row
C15_Witness ==
    /\ pc = "returned"
    /\ ~gpkg.readable
    /\ Len(results["region"]) = 1
    /\ results["region"][1].Code_region = NullStr
    /\ results["region"][1].n_sales >= 100
    /\ {r.Code_departement : r \in DOMAIN clean_file.rows} = {"75", "13"}
    /\ Len(results["department"]) >= 1

\* C16: aggregate_all_levels computes, records and writes the iris summary
\* if and only if the clean table has a CODE_IRIS column; without the column
\* the level is skipped without an error and the dictionary returned has
\* exactly the entries country, region, department, commune and postcode.
C16_IrisOnlyWithColumn ==
    /\ pc \in {"returned", "exited"} /\ status # 1 =>
          /\ ("iris" \in DOMAIN results) <=> ("CODE_IRIS" \in clean_file.cols)
          /\ (marts["iris"].run = "this") <=> ("CODE_IRIS" \in clean_file.cols)
          /\ "CODE_IRIS" \notin clean_file.cols =>
                DOMAIN results =
                    {"country", "region", "department", "commune", "postcode"}
          /\ "CODE_IRIS" \in clean_file.cols =>
                /\ DOMAIN results =
                      {"country", "region", "department", "commune", "postcode",
                       "iris"}
                /\ marts["iris"].rows = results["iris"]
    /\ pc = "reraised" \/ status = 1 =>
          ~Exists(clean_file.cols) \/ "Code_postal" \notin clean_file.cols

\* a run on a clean table without CODE_IRIS, which has sales, has returned
C16_Witness ==
    /\ pc = "returned"
    /\ "CODE_IRIS" \notin clean_file.cols
    /\ DOMAIN results = {"country", "region", "department", "commune", "postcode"}
    /\ Len(results["commune"]) >= 1
    /\ marts["iris"].run = "earlier"

\* C18: a level none of whose groups reaches the level's threshold (a clean
\* table without rows included) has an empty summary, which is written and
\* recorded like any other; the run goes on with the remaining levels, and a
\* run whose clean table can be read and has the grouping columns ends with
\* status zero and every level's dataset written, whereas a failed run ends
\* with an exception, a non-zero status and a level's dataset not written.
C18_EmptySummaryIsNotFailure ==
    LET five == {"country", "region", "department", "commune", "postcode"}
        threshold == [level \in five \cup {"iris"} |->
                         IF level \in {"country", "region"} THEN 100
                         ELSE IF level = "department" THEN 50 ELSE 10]
        geo == [level \in five \cup {"iris"} |->
                   CASE level = "country" -> {}
                     [] level = "region" -> {"Code_region"}
                     [] level = "department" -> {"Code_departement"}
                     [] level = "commune" -> {"Code_commune"}
                     [] level = "postcode" -> {"Code_postal"}
                     [] level = "iris" -> {"CODE_IRIS"}]
        Sales(level, a) ==
            SumOver({r \in DOMAIN df.rows :
                        /\ r.Type_local = a.Type_local
                        /\ \A c \in geo[level] : r[c] = a[c]}, df.rows)
    IN  /\ \A level \in DOMAIN results :
              (\A r \in DOMAIN df.rows : Sales(level, r) < threshold[level])
                  => /\ results[level] = <<>>
                     /\ marts[level] = [run |-> "this", rows |-> <<>>]
        /\ pc = "exited" =>
              /\ (status = 0) <=>
                    Exists(clean_file.cols) /\ "Code_postal" \in clean_file.cols
              /\ status = 0 =>
                    /\ out = <<>>
                    /\ five \subseteq DOMAIN results
                    /\ \A level \in five : marts[level].run = "this"
              /\ status # 0 =>
                    /\ status = 1
                    /\ out # <<>>
                    /\ "postcode" \notin DOMAIN results
                    /\ marts["postcode"].run = "earlier"

\* a run has ended with status zero: no property type has 100 sales, the
\* country and region summaries are empty and the commune summary is not
C18_Witness ==
    /\ pc = "exited"
    /\ status = 0
    /\ DOMAIN df.rows # {}
    /\ results["country"] = <<>>
    /\ results["region"] = <<>>
    /\ Len(results["commune"]) >= 1
    /\ marts["country"] = Dataset("this", <<>>)

(***************************************************************************)
(* Properties of the scripts                                               *)
(***************************************************************************)
\* C17: a run of the cleaning script or of the aggregation script ends with
\* a non-zero status exactly when an exception escaped a stage of the
\* pipeline (load_dvf, add_mutation_id, filter_residential_sales,
\* select_main_local, compute_price_m2, aggregate_all_levels); an
\* unavailable region mapping, a skipped iris level or an unparsable number
\* never makes the status non-zero.
C17_NonZeroStatusIffFatal ==
    pc = "exited" =>
        LET stages == {"load_dvf", "add_mutation_id", "filter_residential_sales",
                       "select_main_local", "compute_price_m2",
                       "aggregate_all_levels"}
            fatal == out # <<>> /\ out.raised_in \in stages
        IN  /\ status \in {0, 1}
            /\ (status # 0) <=> fatal

\* C19: every execution of build_clean_transactions on the raw file gives
\* the clean table this execution gave (the same rows, their order aside),
\* and so the same summary rows at every level, whichever way the sort
\* arranges rows of equal surface_final and unique arranges its groups; and
\* if this execution raised, every execution raises.
C19_SameResultEveryExecution ==
    LET \* the tables select_main_local may hand to compute_price_m2
        deduped == select_main_local(FilterOutput)
        Summaries(t) ==
            [level \in {"country", "region", "department", "commune", "postcode"} |->
                aggregate_price(
                    add_region_code(Parquet(t, columns),
                                    [readable |-> TRUE, region_column |-> TRUE]),
                    GroupCols(level), MIN_SALES_BY_LEVEL(level))]
    IN  /\ pc = "clean" =>
              \A t \in deduped :
                  /\ ~Step2Raises(Stage1(t))
                  /\ Range(compute_price_m2(t)) = Range(df)
                  /\ Summaries(compute_price_m2(t)) = Summaries(df)
        /\ pc = "raised" => \A t \in deduped : Step2Raises(Stage1(t))

\* C20: in every row aggregate_price returns, last_tx_date is the date of a
\* sale of the row's group and no sale of the group has a later date
\* (dates are texts dd/mm/yyyy, compared as dates).
C20_LastTxDateIsLatest ==
    pc = "aggregate_price_returned" =>
        LET G == Range(args.group_cols) \cup {"Type_local"}
            \* the day a date text denotes, as the number yyyymmdd
            Day(d) == CASE d = "03/01/2025" -> 20250103
                        [] d = "28/01/2025" -> 20250128
                        [] d = "15/02/2025" -> 20250215
            Members(a) == {r \in DOMAIN df.rows : \A c \in G : r[c] = a[c]}
        IN  \A i \in 1..Len(out) :
                /\ \E r \in Members(out[i]) : r.Date_mutation = out[i].last_tx_date
                /\ \A r \in Members(out[i]) :
                      Day(r.Date_mutation) <= Day(out[i].last_tx_date)

\* C21: of the rows of a mutation_id that tie for its largest surface_final,
\* select_main_local keeps the one that comes first in its input table.
C21_TieBrokenByInputOrder ==
    pc = "deduped" =>
        \A i \in 1..Len(df) :
            LET largest == {j \in 1..Len(FilterOutput) :
                              /\ FilterOutput[j].mutation_id = df[i].mutation_id
                              /\ \A k \in 1..Len(FilterOutput) :
                                    FilterOutput[k].mutation_id = df[i].mutation_id
                                      => RLe(FilterOutput[k].surface_final,
                                             FilterOutput[j].surface_final)}
                first == CHOOSE j \in largest : \A k \in largest : j <= k
            IN  df[i] = FilterOutput[first]

\* C22: when no row of the deduplicated table passes the initial bounds of
\* Step 1 (the table without rows included), compute_price_m2 raises nothing
\* and returns a table without rows.
C22_NoSurvivorGivesEmptyTable ==
    pc # "deduped" /\ Stage1(args) = <<>> =>
        /\ pc = "clean"
        /\ out = Unset
        /\ df = <<>>

\* C23: after a successful run of aggregate_all_levels, each of the six
\* level datasets on disk was written by that run and holds the summary the
\* run computed for the level from its clean table; no dataset of an
\* earlier run is left.
C23_NoStaleSummary ==
    pc = "returned" \/ (pc = "exited" /\ status = 0) =>
        \A level \in Range(Levels) :
            /\ marts[level].run = "this"
            /\ marts[level].rows =
                  aggregate_price(df, GroupCols(level), MIN_SALES_BY_LEVEL(level))

\* C24: the rows aggregate_price returns are in strictly ascending order of
\* the grouping columns, then of Type local (no two rows agree on all of
\* them), so that the rows returned have no other arrangement in that order.
C24_SummarySorted ==
    pc = "aggregate_price_returned" =>
        LET by == args.group_cols \o <<"Type_local">>
            Before(a, b) ==
                \E k \in 1..Len(by) :
                    /\ \A m \in 1..(k - 1) : a[by[m]] = b[by[m]]
                    /\ TextRank(a[by[k]]) < TextRank(b[by[k]])
            Ascending(s) == \A i, j \in 1..Len(s) : i < j => Before(s[i], s[j])
        IN  /\ Ascending(out)
            /\ \A s \in Arrangements(out) : Ascending(s) => s = out

\* three rows grouped by department: the two of department 13 come first,
\* Appartement before Maison, then the row of department 75
C24_Witness ==
    /\ pc = "aggregate_price_returned"
    /\ args.group_cols = <<"Code_departement">>
    /\ Len(out) = 3
    /\ out[1].Code_departement = "13" /\ out[1].Type_local = "Appartement"
    /\ out[2].Code_departement = "13" /\ out[2].Type_local = "Maison"
    /\ out[3].Code_departement = "75"

\* C25: in whatever order the levels are aggregated and however their steps
\* interleave, the table the levels read stays the clean table (with its
\* region codes), and the summary of every level, computed or written, is
\* the one aggregate_price gives for that level alone on that table.
C25_LevelsIndependent ==
    pc = "levels" =>
        LET clean == add_region_code(clean_file, gpkg)
            Alone(level) ==
                aggregate_price(clean, GroupCols(level), MIN_SALES_BY_LEVEL(level))
        IN  /\ df = clean
            /\ \A level \in DOMAIN args : args[level] = Alone(level)
            /\ \A level \in DOMAIN results :
                  /\ results[level] = Alone(level)
                  /\ marts[level] = Dataset("this", Alone(level))

\* the postcode summary, which has a row, is written before the country
\* level has started, and the commune and iris summaries are computed and
\* not yet written
C25_Witness ==
    /\ pc = "levels"
    /\ DOMAIN results = {"postcode"}
    /\ DOMAIN args = {"commune", "iris"}
    /\ Len(results["postcode"]) >= 1
    /\ Len(args["commune"]) >= 1
    /\ marts["country"].run = "earlier"

\* C26: the commune summary has one row per (Code commune, Type local), and
\* the row counts every clean row with that commune code and type, whatever
\* its Code departement: sales of two departments with the same commune code
\* are in the same row, which does not name a department.
C26_CommuneKeyIsCodeAlone ==
    "commune" \in DOMAIN results =>
        LET commune == results["commune"]
            Members(code, type) ==
                {r \in DOMAIN df.rows : r.Code_commune = code /\ r.Type_local = type}
            Sales(code, type) == SumOver(Members(code, type), df.rows)
        IN  /\ \A i \in 1..Len(commune) :
                  /\ "Code_departement" \notin DOMAIN commune[i]
                  /\ commune[i].n_sales =
                        Sales(commune[i].Code_commune, commune[i].Type_local)
            /\ \A i, j \in 1..Len(commune) :
                  /\ commune[i].Code_commune = commune[j].Code_commune
                  /\ commune[i].Type_local = commune[j].Type_local
                  => i = j
            /\ \A r \in DOMAIN df.rows :
                  Sales(r.Code_commune, r.Type_local) >= 10 =>
                      \E i \in 1..Len(commune) :
                          /\ commune[i].Code_commune = r.Code_commune
                          /\ commune[i].Type_local = r.Type_local

\* nine Appartement sales of commune 101 in department 75 and one in
\* department 13 make one commune row of ten sales, which neither department
\* reaches alone
C26_Witness ==
    /\ "commune" \in DOMAIN results
    /\ \E i \in 1..Len(results["commune"]) :
          /\ results["commune"][i].Code_commune = "101"
          /\ results["commune"][i].n_sales = 10
          /\ {r.Code_departement :
                r \in {q \in DOMAIN df.rows : q.Code_commune = "101"}} = {"75", "13"}

\* pl.col("n_sales").sum() of a summary
RECURSIVE TotalSales(_)
TotalSales(s) == IF s = <<>> THEN 0 ELSE Head(s).n_sales + TotalSales(Tail(s))

\* C27: in the summary of every level each clean row (one with a missing
\* grouping value included) is counted in at most one row, the row of its
\* group; the n_sales of the summary add up to at most the number of clean
\* rows, and to exactly that number if and only if no group of the level is
\* below the level's threshold.
C27_CountsConserved ==
    \A level \in DOMAIN results :
        LET s == results[level]
            by == Range(GroupCols(level)) \cup {"Type_local"}
            n_rows == SumOver(DOMAIN df.rows, df.rows)
            GroupSize(r) ==
                SumOver({q \in DOMAIN df.rows : \A c \in by : q[c] = r[c]}, df.rows)
            CountedIn(r) == {i \in 1..Len(s) : \A c \in by : s[i][c] = r[c]}
        IN  /\ \A r \in DOMAIN df.rows :
                  /\ Cardinality(CountedIn(r)) <= 1
                  /\ \A i \in CountedIn(r) : s[i].n_sales = GroupSize(r)
            /\ \A i \in 1..Len(s) : \E r \in DOMAIN df.rows : i \in CountedIn(r)
            /\ TotalSales(s) <= n_rows
            /\ (TotalSales(s) = n_rows)
                  <=> \A r \in DOMAIN df.rows :
                         GroupSize(r) >= MIN_SALES_BY_LEVEL(level)

\* a run has returned: the iris summary, one row of which has a missing
\* CODE_IRIS, counts every clean row, and the country summary counts some
\* of them and not all
C27_Witness ==
    /\ pc = "returned"
    /\ "iris" \in DOMAIN results
    /\ \E i \in 1..Len(results["iris"]) : results["iris"][i].CODE_IRIS = NullStr
    /\ TotalSales(results["iris"]) = SumOver(DOMAIN df.rows, df.rows)
    /\ TotalSales(results["country"]) > 0
    /\ TotalSales(results["country"]) < SumOver(DOMAIN df.rows, df.rows)

\* C28: the level datasets are written in the order country, region,
\* department, commune, postcode, iris, each with the summary just computed;
\* and when the run has failed at a level k (computing its summary or
\* writing it), the datasets of the levels before k are the ones this run
\* wrote and the datasets of level k and of the levels after it are the
\* ones that were there before the run.
C28_WritesInOrderUpToFailure ==
    LET Written(i) == marts[Levels[i]].run = "this"
        before == Dataset("earlier", <<>>)
    IN  /\ \A i, j \in 1..Len(Levels) : i < j /\ Written(j) => Written(i)
        /\ \A level \in Range(Levels) :
              /\ level \in DOMAIN results <=> marts[level].run = "this"
              /\ level \in DOMAIN results => marts[level].rows = results[level]
        /\ pc = "reraised" \/ status = 1 =>
              /\ out # Unset
              /\ \E k \in 1..Len(Levels) :
                    /\ \A i \in 1..(k - 1) : Written(i)
                    /\ \A i \in k..Len(Levels) : marts[Levels[i]] = before

\* C29: the cleaning script changes the clean dataset on disk in one step
\* only, the write that follows a build_clean_transactions that returned
\* (and sanity checks that passed), and then it ends with status 0; a step
\* in which a stage raises leaves the dataset as it is (absent, or the one
\* of an earlier run), and so does the step that follows it, which ends the
\* script with status 1.
C29_CleanWrittenOnlyAfterBuild ==
    [][ /\ clean_file' # clean_file =>
              /\ pc = "clean"
              /\ out = Unset
              /\ "price_m2" \in columns
              /\ clean_file' = Parquet(df, columns)
              /\ status' = 0
        /\ pc' = "raised" => clean_file' = clean_file /\ status' = NotExited
        /\ pc = "raised" =>
              /\ clean_file' = clean_file
              /\ status' = 1
              /\ pc' = "exited" ]_vars

\* add_mutation_id raised, the script has ended with status 1 and the
\* dataset of the earlier run is still there
C29_Witness ==
    /\ pc = "exited"
    /\ status = 1
    /\ out # Unset
    /\ out.raised_in = "add_mutation_id"
    /\ clean_file = EarlierClean

\* C30: with the mapping loaded, add_region_code returns the rows it was
\* given, each as many times, with every column as it was and the column
\* Code region added: the region of department 75, which the mapping has,
\* is its region 11, and the region of a row of any other department, or
\* of none, is missing; the region summary then has, for a property type,
\* one row with a missing Code region that counts the rows of all those
\* departments together.
C30_MappedRegionCode ==
    gpkg.readable /\ gpkg.region_column /\ pc \in {"region", "region_returned"} =>
        LET Before(r) == [c \in args.cols |-> r[c]]
            Unmapped(type) ==
                {r \in DOMAIN args.rows :
                    r.Code_departement # "75" /\ r.Type_local = type}
            Sales(type) == SumOver(Unmapped(type), args.rows)
        IN  /\ df.cols = args.cols \cup {"Code_region"}
            /\ {Before(r) : r \in DOMAIN df.rows} = DOMAIN args.rows
            /\ \A r, q \in DOMAIN df.rows : Before(r) = Before(q) => r = q
            /\ \A r \in DOMAIN df.rows :
                  /\ df.rows[r] = args.rows[Before(r)]
                  /\ r.Code_region =
                        IF r.Code_departement = "75" THEN "11" ELSE NullStr
            /\ pc = "region_returned" =>
                  \A type \in RESIDENTIAL_TYPES :
                      LET rows == {i \in 1..Len(out) :
                                      /\ out[i].Code_region = NullStr
                                      /\ out[i].Type_local = type}
                      IN  /\ Cardinality(rows) <= 1
                          /\ rows # {} <=> Sales(type) >= 100
                          /\ \A i \in rows : out[i].n_sales = Sales(type)

\* fifty Appartement sales of department 13 and fifty of department 93 make
\* one region row of a hundred sales with a missing Code region, next to
\* the row of region 11
C30_Witness ==
    /\ pc = "region_returned"
    /\ gpkg.readable /\ gpkg.region_column
    /\ \E i \in 1..Len(out) :
          /\ out[i].Code_region = NullStr
          /\ out[i].Type_local = "Appartement"
          /\ out[i].n_sales = 100
    /\ \E r, q \in DOMAIN args.rows :
          /\ r.Code_departement = "13" /\ r.Type_local = "Appartement"
          /\ q.Code_departement = "93" /\ q.Type_local = "Appartement"
    /\ \E i \in 1..Len(out) : out[i].Code_region = "11"

====
